---- MODULE Spec2Model ----
(***************************************************************************)
(* Volatility computation pipeline of EconomicIndicators (Python sources). *)
(*                                                                         *)
(* Modelled:                                                               *)
(*   asymmetric_analysis.py   extract_zigzag_window,                       *)
(*                            calculate_price_movement,                    *)
(*                            calculate_movement_speed, AsymmetricAnalyzer *)
(*                            (pre/post analysis, ratios, batch)           *)
(*   data_processor.py        DataProcessor (daily fixed-window volatility,*)
(*                            load, merge, statistics)                     *)
(*   merge_indicators_with_volatility.py, calculate_intraday_volatility.py *)
(*   statistical_processor.py StatisticalProcessor (statistics,            *)
(*                            classification, detect_outliers)             *)
(*   multiscale_analysis.py   MultiscaleAnalyzer (ratios, propagation)     *)
(*   mt5_integration.py       EconomicIndicatorFileHandler, MT5Integration *)
(*                                                                         *)
(* Specifications:                                                         *)
(*   SpecWindow   window extraction, price movement and speed of a table   *)
(*   Spec         the asymmetric pre/post analysis of one indicator row    *)
(*   SpecBatch    batch_process_indicators over the indicator events       *)
(*   SpecDaily    the daily fixed-window volatility and the hour mapping   *)
(*   SpecMerge    the merge of events with volatility and its statistics   *)
(*   SpecStats    indicator statistics and classification                  *)
(*   SpecScale    scale ratios and propagation effects                     *)
(*   SpecOutliers detect_outliers over one series                          *)
(*   SpecMonitor  the file monitor: observer thread and startup check      *)
(***************************************************************************)
EXTENDS Integers, Sequences, FiniteSets, TLC

VARIABLES
    zigzag_df,          \* the caller's pivot table (a pandas DataFrame)
    window_data,        \* last result of extract_zigzag_window, with its arguments
    movement_results,   \* last result of calculate_price_movement, with its argument
    indicator_row,      \* the indicator event under analysis
    pre_results,        \* last result of analyze_pre_event
    post_results,       \* last result of analyze_post_event
    ratio_results,      \* last call of calculate_ratios: its arguments and result
    dp_zigzag_df,       \* DataProcessor.zigzag_df (legs with start_time_jst)
    daily_volatility_df,\* result of _calculate_daily_fixed_window_volatility
    hour_jst,           \* an indicator's Hour_JST handed to get_time_range
    time_range,         \* last result of get_time_range
    indicators_df,      \* the indicator events handed to batch_process_indicators
    results_df,         \* the rows batch_process_indicators has built, and its return
    indicator_csv,      \* the rows of the indicator CSV file
    volatility_df,      \* DataProcessor.volatility_df (events merged with daily volatility)
    statistics_df,      \* DataProcessor.statistics_df
    merged_df,          \* merged_df of merge_indicators_with_volatility.py
    processor,          \* the StatisticalProcessor: min_samples, category_thresholds
    analyzed_df,        \* the analysed events handed to StatisticalProcessor
    stats_df,           \* result of calculate_indicator_statistics
    classified_df,      \* result of classify_indicators, with its method
    scale_analyzer,     \* the MultiscaleAnalyzer: time_scales, reference_scale
    scale_df,           \* the analysed events handed to MultiscaleAnalyzer
    ratio_df,           \* result of calculate_scale_ratios
    propagation_df,     \* result of analyze_propagation_effects
    speed_results,      \* last result of calculate_movement_speed, with its argument
    data_series,        \* the series handed to detect_outliers
    outliers,           \* last result of detect_outliers, with its arguments
    mt5,                \* the MT5Integration: max_retries
    csv_dir,            \* the CSV files of csv_dir and their flag files
    writes,             \* number of files the producer has written
    event_queue,        \* file events the observer thread has not handled yet
    processed_files,    \* processed_files of the handler the observer runs
    worker,             \* the call of process_indicator_file of each thread
    scan,               \* _check_existing_files: its progress and csv_files
    call_log            \* the calls of process_indicator_file and their results

vars == <<zigzag_df, window_data, movement_results, indicator_row, pre_results,
          post_results, ratio_results, dp_zigzag_df, daily_volatility_df,
          hour_jst, time_range, indicators_df, results_df, indicator_csv,
          volatility_df, statistics_df, merged_df, processor, analyzed_df,
          stats_df, classified_df, scale_analyzer, scale_df, ratio_df,
          propagation_df, speed_results, data_series, outliers, mt5, csv_dir,
          writes, event_queue, processed_files, worker, scan, call_log>>

windowVars == <<window_data, movement_results, speed_results>>
asymVars   == <<indicator_row, pre_results, post_results, ratio_results>>
dailyVars  == <<dp_zigzag_df, daily_volatility_df, hour_jst, time_range>>
batchVars  == <<indicators_df, results_df>>
mergeVars  == <<indicator_csv, volatility_df, statistics_df, merged_df>>
statVars   == <<processor, analyzed_df, stats_df, classified_df>>
scaleVars  == <<scale_analyzer, scale_df, ratio_df, propagation_df>>
outlierVars == <<data_series, outliers>>
monitorVars == <<mt5, csv_dir, writes, event_queue, processed_files, worker, scan,
                 call_log>>

-----------------------------------------------------------------------------
(* Bounds of the model *)

\* largest number of rows of a pivot table handed to the asymmetric analysis
MaxPivots == 3
\* largest number of legs of DataProcessor.zigzag_df
MaxLegs == 2

\* prices a single-price pivot may carry
Prices == {1, 2, 3}
\* start and end prices a leg may carry
LegPrices == {1, 2}
\* pivot instants of SpecWindow, minutes after EpochSeconds
WindowMinutes == 0 .. 2
\* pivot instants of Spec, minutes after EpochSeconds
EventMinutes == 0 .. 3

\* Values a dict may lack are kept as sequences: <<>> for a key the dict
\* does not hold, <<v>> for the value v, and None for Python's None.
Absent == <<>>
None == <<"None">>
Some(v) == <<v>>
\* d.get(key, default)
Get(opt, default) == IF opt = <<>> THEN default ELSE opt[1]

-----------------------------------------------------------------------------
(* Timestamps.  A pandas datetime64[ns] value is a count of nanoseconds   *)
(* since the epoch; it is kept as whole seconds plus nanoseconds.         *)

\* int(t.timestamp()) of the first generated pivot: seconds since the epoch
EpochSeconds == 1700000000

\* pd.to_datetime(v, unit='s')
FromSeconds(v) == [s |-> v, ns |-> 0]

\* pd.to_datetime(v) of an integer v: the default unit is the nanosecond
FromNanos(v) == [s |-> v \div 1000000000, ns |-> v % 1000000000]

\* a <= b on timestamps
DtLeq(a, b) == a.s < b.s \/ (a.s = b.s /\ a.ns <= b.ns)

\* t + pd.Timedelta(minutes=m)
PlusMinutes(t, m) == [t EXCEPT !.s = @ + 60 * m]

\* (b - a).total_seconds() / 60 is zero exactly when a = b
SameInstant(a, b) == a.s = b.s /\ a.ns = b.ns

\* seconds since the epoch of the instant m minutes after EpochSeconds
SecondsOf(m) == EpochSeconds + 60 * m

\* the instant m minutes after EpochSeconds
InstantOf(m) == FromSeconds(SecondsOf(m))

-----------------------------------------------------------------------------
(* Pivot tables.  A row is a zigzag leg [t, start_price, end_price]: t is *)
(* the minute of its start instant.  The layout names the columns, in     *)
(* order, that the DataFrame holds for it.                                *)

\* columns of the DataFrame, in order
Columns(layout) ==
    CASE layout = "generated" ->
           <<"start_time_utc_seconds", "start_time_dt", "price", "leg_length", "is_high">>
      [] layout = "loaded" ->
           <<"start_time_utc_seconds", "end_time_utc_seconds", "start_price",
             "end_price", "start_time_dt", "end_time_dt">>
      [] layout = "instants" ->
           <<"start_time", "end_time", "start_price", "end_price">>
      [] layout = "empty" -> <<>>

\* 'time' in col.lower() or 'date' in col.lower()
IsTimeCol(col) ==
    col \in {"start_time", "end_time", "start_time_dt", "end_time_dt",
             "start_time_utc_seconds", "end_time_utc_seconds"}

\* 'price' in col.lower()
IsPriceCol(col) == col \in {"price", "start_price", "end_price"}

\* [col for col in df.columns if ...], as the indices of the columns kept
TimeCols(layout) ==
    SelectSeq(Columns(layout), IsTimeCol)

PriceCols(layout) ==
    SelectSeq(Columns(layout), IsPriceCol)

\* a column of integer seconds, as read from the CSV files
IsSecondsCol(col) == col \in {"start_time_utc_seconds", "end_time_utc_seconds"}

\* layouts whose pivots carry one price only
SinglePrice(layout) == layout = "generated"

\* the rows a table of this layout can hold
RowsOf(layout, minutes) ==
    IF layout = "empty" THEN {}
    ELSE IF SinglePrice(layout)
         THEN {[t |-> m, start_price |-> p, end_price |-> p] : m \in minutes, p \in Prices}
         ELSE [t : minutes, start_price : LegPrices, end_price : LegPrices]

\* the cell of a row under a column
PriceCell(row, col) == IF col = "end_price" THEN row.end_price ELSE row.start_price

\* The value of the first time column of a row once the column is of
\* datetime type: a datetime column is left alone, any other column goes
\* through pd.to_datetime(column), which reads integers as nanoseconds.
TimeValue(layout, row) ==
    IF IsSecondsCol(TimeCols(layout)[1])
    THEN FromNanos(SecondsOf(row.t))
    ELSE InstantOf(row.t)


\* dtype of the first time column of a freshly built table
InitialTimeDtype(layout) ==
    IF TimeCols(layout) = <<>> THEN "none"
    ELSE IF IsSecondsCol(TimeCols(layout)[1]) THEN "int64" ELSE "datetime64"

\* a freshly built DataFrame
NewFrame(layout, rows) ==
    [layout |-> layout, rows |-> rows, time_dtype |-> InitialTimeDtype(layout)]

\* pd.DataFrame()
EmptyFrame == NewFrame("empty", <<>>)

-----------------------------------------------------------------------------
(* extract_zigzag_window *)

\* (zigzag_df[time_col] >= start_time) & (zigzag_df[time_col] <= end_time)
InWindow(tv, start_time, end_time) ==
    DtLeq(start_time, tv) /\ DtLeq(tv, end_time)

\* the DataFrame returned: the rows of the window, in table order
extract_zigzag_window(df, start_time, end_time) ==
    IF TimeCols(df.layout) = <<>>
    THEN EmptyFrame
    ELSE LET Keep(row) == InWindow(TimeValue(df.layout, row), start_time, end_time)
         IN  [layout |-> df.layout,
              rows |-> SelectSeq(df.rows, Keep),
              time_dtype |-> "datetime64"]

\* the caller's table after the call: the time column is converted in place
AfterExtract(df) ==
    IF TimeCols(df.layout) = <<>>
    THEN df
    ELSE [df EXCEPT !.time_dtype = "datetime64"]

-----------------------------------------------------------------------------
(* calculate_price_movement *)

SetMax(S) == CHOOSE x \in S : \A y \in S : y <= x
SetMin(S) == CHOOSE x \in S : \A y \in S : x <= y
Abs(x) == IF x < 0 THEN -x ELSE x

\* a quotient of two numbers, kept exact
Frac(n, d) == [num |-> n, den |-> d]

\* the result for fewer than 2 rows
NeutralMovement ==
    [price_movement |-> 0, max_price |-> None, min_price |-> None,
     start_price |-> None, end_price |-> None, movement_direction |-> Some("neutral"),
     net_movement |-> Absent, movement_efficiency |-> Absent, error |-> Absent]

\* the result when no column name holds 'price'
NoPriceMovement ==
    [price_movement |-> 0, max_price |-> Absent, min_price |-> Absent,
     start_price |-> Absent, end_price |-> Absent, movement_direction |-> Absent,
     net_movement |-> Absent, movement_efficiency |-> Absent,
     error |-> Some("No price column found")]

\* the values of the price column the function reads: price_cols[0]
PriceValues(df) ==
    {PriceCell(df.rows[i], PriceCols(df.layout)[1]) : i \in 1 .. Len(df.rows)}

\* up / down / neutral from the first and the last price
Direction(start_price, end_price) ==
    IF end_price > start_price THEN "up"
    ELSE IF end_price < start_price THEN "down"
    ELSE "neutral"

\* The positions sort_values(by=time_col) may put first and last: the sort
\* is not stable, so among equal timestamps any row may come first or last.
FirstLast(df) ==
    LET n == Len(df.rows)
        key(i) == TimeValue(df.layout, df.rows[i])
    IN  IF TimeCols(df.layout) = <<>>
        THEN {<<1, n>>}
        ELSE {<<i, j>> \in (1 .. n) \X (1 .. n) :
                 /\ i # j
                 /\ \A k \in 1 .. n : DtLeq(key(i), key(k)) /\ DtLeq(key(k), key(j))}

\* the dict returned for first row i and last row j of the sorted data
MovementOf(df, i, j) ==
    LET price_col == PriceCols(df.layout)[1]
        max_price == SetMax(PriceValues(df))
        min_price == SetMin(PriceValues(df))
        price_movement == max_price - min_price
        start_price == PriceCell(df.rows[i], price_col)
        end_price == PriceCell(df.rows[j], price_col)
    IN  [price_movement |-> price_movement,
         max_price |-> Some(max_price),
         min_price |-> Some(min_price),
         start_price |-> Some(start_price),
         end_price |-> Some(end_price),
         movement_direction |-> Some(Direction(start_price, end_price)),
         net_movement |-> Some(end_price - start_price),
         movement_efficiency |->
             IF price_movement > 0
             THEN Some(Frac(Abs(end_price - start_price), price_movement))
             ELSE Some(Frac(0, 1)),
         error |-> Absent]

\* the dicts calculate_price_movement may return for a DataFrame
calculate_price_movement(df) ==
    IF Len(df.rows) < 2 THEN {NeutralMovement}
    ELSE IF PriceCols(df.layout) = <<>> THEN {NoPriceMovement}
    ELSE {MovementOf(df, ij[1], ij[2]) : ij \in FirstLast(df)}

-----------------------------------------------------------------------------
(* SpecWindow: a pivot table is built, windows are extracted from it and  *)
(* the price movement of the table or of the last window is computed.     *)

NoWindow == [called |-> FALSE, start_time |-> InstantOf(0), end_time |-> InstantOf(0),
             df |-> EmptyFrame]
NoMovement == [called |-> FALSE, df |-> EmptyFrame, result |-> NeutralMovement]

WindowLayouts == {"generated", "loaded", "instants", "empty"}


\* the loader appends one more leg of the CSV files to the table
LoadPivot(minutes) ==
    /\ Len(zigzag_df.rows) < MaxPivots
    /\ window_data.called = FALSE
    /\ movement_results.called = FALSE
    /\ speed_results.called = FALSE
    /\ \E row \in RowsOf(zigzag_df.layout, minutes) :
          zigzag_df' = [zigzag_df EXCEPT !.rows = Append(@, row)]
    /\ UNCHANGED windowVars

\* window_data = extract_zigzag_window(zigzag_df, start_time, end_time)
ExtractZigzagWindow ==
    /\ movement_results.called = FALSE
    /\ speed_results.called = FALSE
    /\ \E a \in WindowMinutes, b \in WindowMinutes :
          /\ a <= b
          /\ window_data' =
                [called |-> TRUE, start_time |-> InstantOf(a), end_time |-> InstantOf(b),
                 df |-> extract_zigzag_window(zigzag_df, InstantOf(a), InstantOf(b))]
    /\ zigzag_df' = AfterExtract(zigzag_df)
    /\ UNCHANGED <<movement_results, speed_results>>

\* movement_results = calculate_price_movement(df), for the table itself or
\* for the window extracted last
CalculatePriceMovement ==
    /\ movement_results.called = FALSE
    /\ speed_results.called = FALSE
    /\ \E df \in {zigzag_df} \cup (IF window_data.called THEN {window_data.df} ELSE {}) :
       \E r \in calculate_price_movement(df) :
          movement_results' = [called |-> TRUE, df |-> df, result |-> r]
    /\ UNCHANGED <<zigzag_df, window_data, speed_results>>


-----------------------------------------------------------------------------
(* calculate_movement_speed *)

\* b - a, a pd.Timedelta, for a <= b
Elapsed(a, b) ==
    IF b.ns >= a.ns
    THEN [s |-> b.s - a.s, ns |-> b.ns - a.ns]
    ELSE [s |-> b.s - a.s - 1, ns |-> b.ns - a.ns + 1000000000]

\* a speed of 0 per minute
ZeroSpeed == Frac(0, [s |-> 60, ns |-> 0])

\* ZeroTimeDifference without the test
ZeroTimeDifferenceUntested(start_time, end_time) == FALSE

\* if time_diff_minutes == 0
ZeroTimeDifference(start_time, end_time) == SameInstant(start_time, end_time)

\* the dict calculate_movement_speed returns; the quotients by the elapsed
\* minutes are kept as numerator and elapsed time
calculate_movement_speed(df) ==
    IF Len(df.rows) < 2
    THEN [movement_speed |-> ZeroSpeed, time_diff_minutes |-> Absent,
          leg_frequency |-> Absent, error |-> Absent]
    ELSE IF PriceCols(df.layout) = <<>> \/ TimeCols(df.layout) = <<>>
    THEN [movement_speed |-> ZeroSpeed, time_diff_minutes |-> Absent,
          leg_frequency |-> Absent, error |-> Some("Missing required columns")]
    ELSE LET ij == CHOOSE x \in FirstLast(df) : TRUE
             start_time == TimeValue(df.layout, df.rows[ij[1]])
             end_time == TimeValue(df.layout, df.rows[ij[2]])
             price_movement == SetMax(PriceValues(df)) - SetMin(PriceValues(df))
         IN  IF ZeroTimeDifference(start_time, end_time)
             THEN [movement_speed |-> ZeroSpeed, time_diff_minutes |-> Absent,
                   leg_frequency |-> Absent, error |-> Some("Zero time difference")]
             ELSE [movement_speed |-> Frac(price_movement, Elapsed(start_time, end_time)),
                   time_diff_minutes |-> Some(Elapsed(start_time, end_time)),
                   leg_frequency |-> Some(Frac(Len(df.rows) - 1, Elapsed(start_time, end_time))),
                   error |-> Absent]

NoSpeed == [called |-> FALSE, df |-> EmptyFrame,
            result |-> calculate_movement_speed(EmptyFrame)]

\* speed_results = calculate_movement_speed(df), for the table itself or
\* for the window extracted last
CalculateMovementSpeed ==
    /\ ~speed_results.called
    /\ ~movement_results.called
    /\ \E df \in {zigzag_df} \cup (IF window_data.called THEN {window_data.df} ELSE {}) :
          speed_results' = [called |-> TRUE, df |-> df,
                            result |-> calculate_movement_speed(df)]
    /\ UNCHANGED <<zigzag_df, window_data, movement_results>>

-----------------------------------------------------------------------------
(* AsymmetricAnalyzer *)

\* self.pre_window, minutes
pre_window == 1
\* self.post_windows, minutes
post_windows == <<1, 2>>

PostWindowSet == {post_windows[k] : k \in 1 .. Len(post_windows)}

\* the indicator rows analysed: with a DateTime_UTC column, or with no
\* column whose name holds 'datetime' or 'time'
IndicatorRows ==
    {[time_col |-> "DateTime_UTC", minute |-> m] : m \in {1}}
        \cup {[time_col |-> "none", minute |-> 0]}

\* pd.to_datetime(indicator_row['DateTime_UTC'])
EventTime(row) == InstantOf(row.minute)

\* pre_start of analyze_pre_event
PreStart(event_time) == PlusMinutes(event_time, 0 - pre_window)

\* PostEnd with the windows taken the other way round
PostEndReversed(event_time, minutes) == PlusMinutes(event_time, 3 - minutes)

\* post_end of analyze_post_event
PostEnd(event_time, minutes) == PlusMinutes(event_time, minutes)

\* len(pre_data) < 2: no valid result can be computed
TooFewPoints(data) == Len(data.rows) < 2

NoDatetimePre ==
    [pre_event_valid |-> FALSE, pre_event_points |-> Absent,
     pre_window_minutes |-> Absent, pre_event_legs |-> Absent,
     movement |-> Absent, speed |-> Absent,
     pre_event_last_min_movement |-> Absent,
     pre_event_last_min_direction |-> Absent,
     error |-> Some("No datetime column found")]

\* the dicts analyze_pre_event may return; the keys of movement_results
\* and speed_results are kept under movement and speed
analyze_pre_event(row, df) ==
    IF row.time_col = "none" THEN {NoDatetimePre}
    ELSE
    LET event_time == EventTime(row)
        pre_data == extract_zigzag_window(df, PreStart(event_time), event_time)
        last_minute_data ==
            extract_zigzag_window(df, PlusMinutes(event_time, 0 - 1), event_time)
    IN  IF TooFewPoints(pre_data)
        THEN {[NoDatetimePre EXCEPT !.pre_event_points = Some(Len(pre_data.rows)),
                                    !.pre_window_minutes = Some(pre_window),
                                    !.error = Absent]}
        ELSE {[pre_event_valid |-> TRUE,
               pre_event_points |-> Some(Len(pre_data.rows)),
               pre_window_minutes |-> Some(pre_window),
               pre_event_legs |-> Some(Len(pre_data.rows) - 1),
               movement |-> Some(m),
               speed |-> Some(calculate_movement_speed(pre_data)),
               pre_event_last_min_movement |->
                   IF Len(last_minute_data.rows) >= 2
                   THEN Some(lm.price_movement) ELSE Absent,
               pre_event_last_min_direction |->
                   IF Len(last_minute_data.rows) >= 2
                   THEN Some(Get(lm.movement_direction, "neutral")) ELSE Absent,
               error |-> calculate_movement_speed(pre_data).error] :
                 m \in calculate_price_movement(pre_data),
                 lm \in calculate_price_movement(last_minute_data)}

\* the keys post_{N}min_* of one window
PostWindowResult(df, event_time, minutes) ==
    LET post_data == extract_zigzag_window(df, event_time, PostEnd(event_time, minutes))
    IN  IF TooFewPoints(post_data)
        THEN {[valid |-> FALSE, points |-> Len(post_data.rows), legs |-> Absent,
               movement |-> Absent, speed |-> Absent]}
        ELSE {[valid |-> TRUE, points |-> Len(post_data.rows),
               legs |-> Some(Len(post_data.rows) - 1),
               movement |-> Some(m),
               speed |-> Some(calculate_movement_speed(post_data))] :
                 m \in calculate_price_movement(post_data)}

NoDatetimePost ==
    [post_event_valid |-> FALSE, error |-> Some("No datetime column found"),
     windows |-> Absent]

\* the dicts analyze_post_event may return
analyze_post_event(row, df) ==
    IF row.time_col = "none" THEN {NoDatetimePost}
    ELSE
    LET opts(n) == PostWindowResult(df, EventTime(row), n)
    IN  {[post_event_valid |-> TRUE, error |-> Absent, windows |-> Some(w)] :
            w \in {f \in [PostWindowSet -> UNION {opts(n) : n \in PostWindowSet}] :
                      \A n \in PostWindowSet : f[n] \in opts(n)}}


-----------------------------------------------------------------------------
(* AsymmetricAnalyzer.calculate_ratios *)

InvalidRatios(message) ==
    [ratios_valid |-> FALSE, error |-> Some(message),
     ratio |-> [n \in PostWindowSet |-> Absent],
     log_ratio |-> [n \in PostWindowSet |-> Absent],
     direction_consistency |-> [n \in PostWindowSet |-> Absent]]

\* RatiosRefused without the test of a zero pre-event movement
RatiosRefusedNoZeroTest(pre, post) ==
    IF ~pre.pre_event_valid THEN Some("Invalid pre-event results")
    ELSE IF ~post.post_event_valid THEN Some("Invalid post-event results")
    ELSE Absent

\* the conditions under which no ratio is computed, in the order tested
RatiosRefused(pre, post) ==
    IF ~pre.pre_event_valid THEN Some("Invalid pre-event results")
    ELSE IF ~post.post_event_valid THEN Some("Invalid post-event results")
    ELSE IF Get(pre.movement, NoPriceMovement).price_movement = 0
         THEN Some("Pre-event movement is zero, cannot calculate ratios")
    ELSE Absent

\* Ratio with the quotient taken the wrong way round
RatioInverted(post_movement, pre_movement) == [num |-> pre_movement, den |-> post_movement]

\* ratio = post_movement / pre_movement if pre_movement > 0 else float('inf')
Ratio(post_movement, pre_movement) ==
    IF pre_movement > 0 THEN Frac(post_movement, pre_movement) ELSE Frac(1, 0)

\* ratio > 0
RatioPositive(ratio) == ratio.num > 0

\* np.log(ratio), kept as the logarithm of the exact quotient
Log(ratio) == [ln |-> ratio]

\* DirectionConsistency that takes neutral for a direction like any other
DirectionConsistencyNoNeutral(pre_direction, post_direction) ==
    IF pre_direction = post_direction THEN [num |-> 1, den |-> 1]
    ELSE [num |-> 0, den |-> 1]

\* 1: same direction, 0: opposite, 0.5: one of the two is neutral
DirectionConsistency(pre_direction, post_direction) ==
    IF pre_direction = "neutral" \/ post_direction = "neutral" THEN Frac(1, 2)
    ELSE IF pre_direction = post_direction THEN Frac(1, 1)
    ELSE Frac(0, 1)

\* post_results.get(f'{window_key}_valid', False)
PostWindowValid(post, n) == Get(post.windows, [m \in PostWindowSet |-> [valid |-> FALSE]])[n].valid

\* post_results.get(f'{window_key}_price_movement', 0)
PostMovement(post, n) ==
    Get(Get(post.windows, <<>>)[n].movement, NoPriceMovement).price_movement

\* post_results.get(f'{window_key}_movement_direction', 'neutral')
PostDirection(post, n) ==
    Get(Get(Get(post.windows, <<>>)[n].movement, NoPriceMovement).movement_direction,
        "neutral")

\* pre_results.get('movement_direction', 'neutral')
PreDirection(pre) ==
    Get(Get(pre.movement, NoPriceMovement).movement_direction, "neutral")

\* the dict calculate_ratios returns
calculate_ratios(pre, post) ==
    IF RatiosRefused(pre, post) # Absent
    THEN InvalidRatios(RatiosRefused(pre, post)[1])
    ELSE
    LET pre_movement == Get(pre.movement, NoPriceMovement).price_movement
        ratio(n) == Ratio(PostMovement(post, n), pre_movement)
    IN  [ratios_valid |-> TRUE, error |-> Absent,
         ratio |-> [n \in PostWindowSet |->
                      IF PostWindowValid(post, n) THEN Some(ratio(n)) ELSE Absent],
         log_ratio |-> [n \in PostWindowSet |->
                      IF PostWindowValid(post, n) /\ RatioPositive(ratio(n))
                      THEN Some(Log(ratio(n))) ELSE Absent],
         direction_consistency |-> [n \in PostWindowSet |->
                      Some(DirectionConsistency(PreDirection(pre), PostDirection(post, n)))]]

-----------------------------------------------------------------------------
(* Spec: a pivot table is built, one indicator row is analysed before and *)
(* after its announcement, and the ratios of the two results are taken.   *)

NoPre == [called |-> FALSE, result |-> NoDatetimePre]
NoPost == [called |-> FALSE, result |-> NoDatetimePost]
NoRatios == [called |-> FALSE, pre |-> NoDatetimePre, post |-> NoDatetimePost,
             result |-> InvalidRatios("")]

AsymLayouts == {"instants", "generated"}


\* the loader appends one more pivot to the table; the pivots of a file
\* follow one another in time
LoadEventPivot ==
    /\ Len(zigzag_df.rows) < MaxPivots
    /\ ~pre_results.called /\ ~post_results.called /\ ~ratio_results.called
    /\ \E row \in RowsOf(zigzag_df.layout, EventMinutes) :
          /\ zigzag_df.rows # <<>> => zigzag_df.rows[Len(zigzag_df.rows)].t <= row.t
          /\ zigzag_df' = [zigzag_df EXCEPT !.rows = Append(@, row)]
    /\ UNCHANGED asymVars

\* pre_results = self.analyze_pre_event(indicator_row, zigzag_df)
AnalyzePreEvent ==
    /\ ~pre_results.called
    /\ \E r \in analyze_pre_event(indicator_row, zigzag_df) :
          pre_results' = [called |-> TRUE, result |-> r]
    /\ zigzag_df' = IF indicator_row.time_col = "none" THEN zigzag_df
                    ELSE AfterExtract(zigzag_df)
    /\ UNCHANGED <<indicator_row, post_results, ratio_results>>

\* post_results = self.analyze_post_event(indicator_row, zigzag_df)
AnalyzePostEvent ==
    /\ ~post_results.called
    /\ \E r \in analyze_post_event(indicator_row, zigzag_df) :
          post_results' = [called |-> TRUE, result |-> r]
    /\ zigzag_df' = IF indicator_row.time_col = "none" THEN zigzag_df
                    ELSE AfterExtract(zigzag_df)
    /\ UNCHANGED <<indicator_row, pre_results, ratio_results>>

\* ratio_results = self.calculate_ratios(pre_results, post_results); a
\* caller may also hand it the dict of a failed post-event analysis
CalculateRatios ==
    /\ pre_results.called
    /\ ~ratio_results.called
    /\ \E post \in (IF post_results.called THEN {post_results.result} ELSE {})
                     \cup {NoDatetimePost} :
          ratio_results' = [called |-> TRUE, pre |-> pre_results.result, post |-> post,
                            result |-> calculate_ratios(pre_results.result, post)]
    /\ UNCHANGED <<zigzag_df, indicator_row, pre_results, post_results>>

-----------------------------------------------------------------------------
(* DataProcessor: fixed time windows of the local (JST) day.  A leg of    *)
(* DataProcessor.zigzag_df is [start_time_jst, start_price, end_price];   *)
(* start_time_jst counts the minutes since 00:00 of day 0.                *)

MinutesPerDay == 24 * 60

\* DataProcessor.FIXED_TIME_WINDOWS_JST: (start hour, end hour (excluded))
FIXED_TIME_WINDOWS_JST ==
    <<<<0, 3>>, <<3, 6>>, <<7, 9>>, <<9, 12>>, <<12, 15>>, <<15, 21>>, <<21, 24>>>>

\* JST_TIME_RANGES of calculate_intraday_volatility.py, and the same list
\* jst_time_ranges of merge_indicators_with_volatility.py
JST_TIME_RANGES ==
    <<<<7, 9>>, <<9, 12>>, <<12, 15>>, <<15, 21>>, <<21, 24>>, <<0, 3>>, <<3, 7>>>>

\* the first (start, end) of the list with start <= hour < end, else None
FirstRange(ranges, hour) ==
    LET hits == {k \in 1 .. Len(ranges) : ranges[k][1] <= hour /\ hour < ranges[k][2]}
    IN  IF hits = {} THEN None ELSE Some(ranges[SetMin(hits)])

\* get_time_range(hour)
get_time_range(hour) == FirstRange(JST_TIME_RANGES, hour)

\* self.zigzag_df['start_time_jst'].dt.date
DateOf(start_time_jst) == start_time_jst \div MinutesPerDay

\* datetime.combine(date_val, datetime.min.time()) + timedelta(hours=hour)
WindowBound(date_val, hour) == date_val * MinutesPerDay + 60 * hour

\* FixedWindowData with the end of the window included
FixedWindowDataClosed(df, date_val, start_hour, end_hour) ==
    LET mask(leg) == /\ leg.start_time_jst >= WindowBound(date_val, start_hour)
                     /\ leg.start_time_jst <= WindowBound(date_val, end_hour)
                     /\ DateOf(leg.start_time_jst) = date_val
    IN  SelectSeq(df, mask)

\* the rows of window_data: the legs selected by the mask, in table order
FixedWindowData(df, date_val, start_hour, end_hour) ==
    LET mask(leg) == /\ leg.start_time_jst >= WindowBound(date_val, start_hour)
                     /\ leg.start_time_jst < WindowBound(date_val, end_hour)
                     /\ DateOf(leg.start_time_jst) = date_val
    IN  SelectSeq(df, mask)

NaN == <<>>

\* daily_data_row[col_name]
FixedWindowCell(window_rows) ==
    IF window_rows # <<>>
    THEN LET prices == {window_rows[k].start_price : k \in 1 .. Len(window_rows)}
         IN  Some(SetMax(prices) - SetMin(prices))
    ELSE NaN

\* self.zigzag_df['date_jst'].unique(): the dates in order of first appearance
RECURSIVE Unique(_)
Unique(dates) ==
    IF dates = <<>> THEN <<>>
    ELSE LET front == Unique(SubSeq(dates, 1, Len(dates) - 1))
             last == dates[Len(dates)]
         IN  IF \E k \in 1 .. Len(front) : front[k] = last THEN front
             ELSE Append(front, last)

\* the DataFrame _calculate_daily_fixed_window_volatility returns: one row
\* per date, one cell per fixed window
calculate_daily_fixed_window_volatility(df) ==
    LET all_dates == Unique([k \in 1 .. Len(df) |-> DateOf(df[k].start_time_jst)])
    IN  [k \in 1 .. Len(all_dates) |->
            [Date |-> all_dates[k],
             cells |-> [w \in 1 .. Len(FIXED_TIME_WINDOWS_JST) |->
                          FixedWindowCell(FixedWindowData(df, all_dates[k],
                                              FIXED_TIME_WINDOWS_JST[w][1],
                                              FIXED_TIME_WINDOWS_JST[w][2]))]]]

-----------------------------------------------------------------------------
(* SpecDaily: legs are loaded, the daily volatility table is computed,    *)
(* then the merge script looks up the time range of an indicator's hour.  *)

\* local days of the legs
Days == {0, 1}
\* local times of day of the legs, in minutes: 00:00, 03:00, 06:30, 23:59
TimesOfDay == {0, 180, 390, 1439}
Hours == 0 .. 23

NoDaily == [called |-> FALSE, rows |-> <<>>]


\* load_zigzag_data: one more leg of the CSV files
LoadLeg ==
    /\ Len(dp_zigzag_df) < MaxLegs
    /\ ~daily_volatility_df.called
    /\ \E d \in Days, m \in TimesOfDay, sp \in LegPrices, ep \in LegPrices :
          dp_zigzag_df' = Append(dp_zigzag_df,
                                 [start_time_jst |-> d * MinutesPerDay + m,
                                  start_price |-> sp, end_price |-> ep])
    /\ UNCHANGED <<daily_volatility_df, hour_jst, time_range>>

\* daily_volatility_df = self._calculate_daily_fixed_window_volatility()
CalculateDailyVolatility ==
    /\ ~daily_volatility_df.called
    /\ daily_volatility_df' =
          [called |-> TRUE, rows |-> calculate_daily_fixed_window_volatility(dp_zigzag_df)]
    /\ UNCHANGED <<dp_zigzag_df, hour_jst, time_range>>

\* df_indicators['TimeRange_JST'] = df_indicators['Hour_JST'].apply(get_time_range)
GetTimeRange ==
    /\ daily_volatility_df.called
    /\ time_range = Absent
    /\ \E hour \in Hours :
          /\ hour_jst' = hour
          /\ time_range' = Some(get_time_range(hour))
    /\ UNCHANGED <<dp_zigzag_df, daily_volatility_df>>

-----------------------------------------------------------------------------
(* AsymmetricAnalyzer.analyze_indicator and batch_process_indicators.  An *)
(* event row is [time_col, minute, fields]: fields maps the names of its  *)
(* other columns to their values.                                         *)

\* largest number of pivots and of events of a batch
MaxBatchPivots == 2
MaxEvents == 2

\* the names n of a dict kept as a record for which the dict holds a key
Present(rec, names) == {n \in names : rec[n] # Absent}

\* keys of the dict calculate_price_movement returned
MovementKeys(movement) ==
    {"price_movement"} \cup
    Present(movement, {"max_price", "min_price", "start_price", "end_price",
                       "movement_direction", "net_movement", "movement_efficiency",
                       "error"})

\* keys of the dict calculate_movement_speed returned
SpeedKeys(speed) ==
    {"movement_speed"} \cup Present(speed, {"time_diff_minutes", "leg_frequency", "error"})

\* keys of pre_results
PreKeys(pre) ==
    {"pre_event_valid"}
        \cup Present(pre, {"pre_event_points", "pre_window_minutes", "pre_event_legs",
                           "pre_event_last_min_movement", "pre_event_last_min_direction",
                           "error"})
        \cup (IF pre.movement = Absent THEN {} ELSE MovementKeys(pre.movement[1]))
        \cup (IF pre.speed = Absent THEN {} ELSE SpeedKeys(pre.speed[1]))

\* window_key = f'post_{minutes}min', followed by '_'
WindowKey(minutes) == "post_" \o ToString(minutes) \o "min_"

\* keys of post_results
PostKeys(post) ==
    {"post_event_valid"} \cup Present(post, {"error"}) \cup
    (IF post.windows = Absent THEN {}
     ELSE UNION {
        LET window == post.windows[1][n]
        IN  {WindowKey(n) \o "valid", WindowKey(n) \o "points"}
               \cup {WindowKey(n) \o k : k \in Present(window, {"legs"})}
               \cup (IF window.movement = Absent THEN {}
                     ELSE {WindowKey(n) \o k : k \in MovementKeys(window.movement[1])})
               \cup (IF window.speed = Absent THEN {}
                     ELSE {WindowKey(n) \o k : k \in SpeedKeys(window.speed[1])})
        : n \in PostWindowSet})

\* keys of ratio_results
RatioKeys(ratios) ==
    {"ratios_valid"} \cup Present(ratios, {"error"}) \cup
    UNION {
        (IF ratios.ratio[n] = Absent THEN {} ELSE {"ratio_" \o ToString(n) \o "min"})
          \cup (IF ratios.log_ratio[n] = Absent THEN {}
                ELSE {"log_ratio_" \o ToString(n) \o "min"})
          \cup (IF ratios.direction_consistency[n] = Absent THEN {}
                ELSE {"direction_consistency_" \o ToString(n) \o "min"})
        : n \in PostWindowSet}

\* EventFieldsKept without the test "key not in combined_results"
EventFieldsWritten(row, keys) == row.fields

\* the event fields the final loop writes: those whose key is not in
\* combined_results yet
EventFieldsKept(row, keys) ==
    [k \in (DOMAIN row.fields) \ keys |-> row.fields[k]]

\* combined_results for given pre and post results: error is the value the
\* key 'error' ends with after the three update() calls
CombinedResults(row, pre, post) ==
    LET both == pre.pre_event_valid /\ post.post_event_valid
        ratios == IF both THEN Some(calculate_ratios(pre, post)) ELSE Absent
        keys == PreKeys(pre) \cup PostKeys(post)
                   \cup (IF both THEN RatioKeys(ratios[1]) ELSE {})
    IN  [pre |-> pre, post |-> post, ratios |-> ratios,
         error |-> IF both /\ ratios[1].error # Absent THEN ratios[1].error
                   ELSE IF post.error # Absent THEN post.error
                   ELSE pre.error,
         keys |-> keys,
         DateTime_UTC |-> IF row.time_col = "none" THEN Absent ELSE Some(row.minute),
         fields |-> EventFieldsKept(row, keys)]

\* the dicts analyze_indicator may return
analyze_indicator(row, df) ==
    {CombinedResults(row, pre, post) :
        pre \in analyze_pre_event(row, df), post \in analyze_post_event(row, df)}

\* IndicatorAt taking the events last to first
IndicatorAtReversed(events, idx) == events[Len(events) + 1 - idx]

\* the idx-th (_, indicator_row) of indicators_df.iterrows()
IndicatorAt(events, idx) == events[idx]

\* the text of the "no data" value -9223372036854775808 in a CSV field
SentinelText == "-9223372036854775808"

\* the event rows of a batch, as the indicator CSV file holds them; the
\* first one has no forecast
BatchEvents ==
    {[time_col |-> "DateTime_UTC", minute |-> 1,
      fields |-> [k \in {"Currency", "Forecast"} |->
                    IF k = "Currency" THEN "USD" ELSE SentinelText]],
     [time_col |-> "DateTime_UTC", minute |-> 2,
      fields |-> [k \in {"Currency", "price_movement"} |->
                    IF k = "Currency" THEN "EUR" ELSE "0.5"]],
     [time_col |-> "none", minute |-> 0, fields |-> [k \in {"Currency"} |-> "JPY"]]}

\* one row of load_indicator_data(file_path) of integrated_analysis.py and
\* process_indicators.py: the row pd.read_csv gives, every field as read
PipelineIndicator(csv_row) ==
    [time_col |-> csv_row.time_col, minute |-> csv_row.minute,
     fields |-> [k \in DOMAIN csv_row.fields |-> csv_row.fields[k]]]

NoResults == [returned |-> FALSE, rows |-> <<>>]

\* one more pivot of the table handed to the batch, in time order
LoadBatchPivot ==
    /\ Len(zigzag_df.rows) < MaxBatchPivots
    /\ results_df = NoResults
    /\ \E row \in RowsOf(zigzag_df.layout, EventMinutes) :
          /\ zigzag_df.rows # <<>> => zigzag_df.rows[Len(zigzag_df.rows)].t <= row.t
          /\ zigzag_df' = [zigzag_df EXCEPT !.rows = Append(@, row)]
    /\ UNCHANGED batchVars

\* one more event of the table handed to the batch
LoadIndicator ==
    /\ Len(indicators_df) < MaxEvents
    /\ results_df = NoResults
    /\ \E row \in BatchEvents :
          indicators_df' = Append(indicators_df, PipelineIndicator(row))
    /\ UNCHANGED <<zigzag_df, results_df>>

\* one turn of the loop of batch_process_indicators:
\* results.append(analyzer.analyze_indicator(indicator_row, zigzag_df))
AnalyzeIndicator ==
    /\ ~results_df.returned
    /\ Len(results_df.rows) < Len(indicators_df)
    /\ LET row == IndicatorAt(indicators_df, Len(results_df.rows) + 1)
       IN  /\ \E r \in analyze_indicator(row, zigzag_df) :
                 results_df' = [results_df EXCEPT !.rows = Append(@, r)]
           /\ zigzag_df' = IF row.time_col = "none" THEN zigzag_df
                           ELSE AfterExtract(zigzag_df)
    /\ UNCHANGED indicators_df

\* results_df = pd.DataFrame(results); return results_df
ReturnResults ==
    /\ ~results_df.returned
    /\ Len(results_df.rows) = Len(indicators_df)
    /\ results_df' = [results_df EXCEPT !.returned = TRUE]
    /\ UNCHANGED <<zigzag_df, indicators_df>>

-----------------------------------------------------------------------------
(* DataProcessor: the indicator events, their merge with the daily        *)
(* volatility table and the statistics per indicator; and                 *)
(* merge_indicators_with_volatility.py, which merges the same events with *)
(* the table calculate_intraday_volatility.py writes.  Text cells are     *)
(* sequences of characters, Forecast is in units of 1/10000.              *)

\* largest number of events of the indicator CSV
MaxIndicators == 2

\* the character of garbled event names
Box == "□"

\* Unicode code points of the characters the event names and currencies use
CodePoint ==
    ("C" :> 67) @@ ("D" :> 68) @@ ("E" :> 69) @@ ("G" :> 71) @@ ("I" :> 73) @@
    ("P" :> 80) @@ ("R" :> 82) @@ ("S" :> 83) @@ ("U" :> 85) @@ (Box :> 9633)

\* a < b for two str values
StrLess(a, b) ==
    \E k \in 1 .. Len(b) :
        /\ k <= Len(a) + 1
        /\ \A j \in 1 .. k - 1 : a[j] = b[j]
        /\ (k = Len(a) + 1 \/ CodePoint[a[k]] < CodePoint[b[k]])

\* a cell of a numeric CSV column: a number, or SPECIAL_VALUE (the int64 minimum)
Number(v) == [special |-> FALSE, value |-> v]
SPECIAL_VALUE == [special |-> TRUE, value |-> 0]

\* rows of the indicator CSV; DateTime (UTC) in minutes: 00:30 and 16:00 of
\* day 0 (09:30 of local day 0, 01:00 of local day 1), 00:30 of day 2
IndicatorCsv ==
    { [ID |-> 1, Currency |-> <<"U", "S", "D">>, EventName |-> <<"G", "D", "P">>,
       DateTime_UTC |-> 30, Forecast |-> Number(10000)],
      [ID |-> 2, Currency |-> <<"U", "S", "D">>, EventName |-> <<"G", "D", "P">>,
       DateTime_UTC |-> 960, Forecast |-> Number(12346)],
      [ID |-> 3, Currency |-> <<"U", "S", "D">>, EventName |-> <<Box, "C", Box>>,
       DateTime_UTC |-> 30, Forecast |-> Number(10000)],
      [ID |-> 4, Currency |-> <<"E", "U", "R">>, EventName |-> <<"C", "P", "I">>,
       DateTime_UTC |-> 2 * MinutesPerDay + 30, Forecast |-> SPECIAL_VALUE] }

\* df[col].replace(SPECIAL_VALUE, np.nan)
ReplaceSpecial(cell) == IF cell.special THEN NaN ELSE Some(cell.value)

\* + pd.Timedelta(hours=9), and tz_convert('Asia/Tokyo')
ToJST(utc) == utc + 9 * 60

\* one row of DataProcessor.indicators_df after load_indicator_data
load_indicator_data(csv_row) ==
    [ID |-> csv_row.ID, Currency |-> csv_row.Currency, EventName |-> csv_row.EventName,
     DateTime_UTC |-> csv_row.DateTime_UTC,
     DateTime_JST |-> ToJST(csv_row.DateTime_UTC),
     Forecast |-> ReplaceSpecial(csv_row.Forecast)]

\* the rows of pd.merge(left, right, how='left'): pairs (l, r) of row numbers
\* in the order of the left rows, r = 0 where no right row has the key of
\* row l; matches is the set of the pairs of rows with equal keys
LeftMergePairs(nl, matches) ==
    LET P == matches \cup {<<l, 0>> : l \in {i \in 1 .. nl : \A m \in matches : m[1] # i}}
        Before(p, q) == p[1] < q[1] \/ (p[1] = q[1] /\ p[2] < q[2])
    IN  [k \in 1 .. Cardinality(P) |->
            CHOOSE p \in P : Cardinality({q \in P : Before(q, p)}) = k - 1]

\* the volatility columns of a merged row without a matching day
NoVolatility == [w \in 1 .. Len(FIXED_TIME_WINDOWS_JST) |-> NaN]

\* DataProcessor._merge_volatility_with_indicators(daily_volatility_df)
merge_volatility_with_indicators(indicators, daily) ==
    IF daily = <<>> THEN <<>>
    ELSE LET matches == {m \in (1 .. Len(indicators)) \X (1 .. Len(daily)) :
                            DateOf(indicators[m[1]].DateTime_JST) = daily[m[2]].Date}
             pairs == LeftMergePairs(Len(indicators), matches)
         IN  [k \in 1 .. Len(pairs) |->
                LET ev == indicators[pairs[k][1]]
                IN  [ID |-> ev.ID, Currency |-> ev.Currency, EventName |-> ev.EventName,
                     DateTime_UTC |-> ev.DateTime_UTC, DateTime_JST |-> ev.DateTime_JST,
                     Forecast |-> ev.Forecast,
                     Volatility |-> IF pairs[k][2] = 0 THEN NoVolatility
                                    ELSE daily[pairs[k][2]].cells]]

\* calculate_intraday_volatility.py: the end of a range, 24 being 00:00 of
\* the next day
RangeEnd(date_val, end_hour) ==
    IF end_hour = 24 THEN (date_val + 1) * MinutesPerDay
    ELSE WindowBound(date_val, end_hour)

\* legs_in_range
LegsInRange(df, date_val, start_hour, end_hour) ==
    LET mask(leg) == /\ leg.start_time_jst >= WindowBound(date_val, start_hour)
                     /\ leg.start_time_jst < RangeEnd(date_val, end_hour)
    IN  SelectSeq(df, mask)

\* round(float(x), 3) of a value in units of 1/10000; a value ending in 5
\* is rounded to the even neighbour
Round3(x) ==
    LET q == x \div 10
        r == x % 10
    IN  IF r < 5 THEN 10 * q
        ELSE IF r > 5 THEN 10 * (q + 1)
        ELSE IF q % 2 = 0 THEN 10 * q ELSE 10 * (q + 1)

\* f'{x:.3f}' of a price in units of 1/10000, read back by pd.read_csv
Format3(x) == Some(Round3(x))

\* one row of the table calculate_intraday_volatility.py writes
IntradayRow(df, date_val, range) ==
    LET legs == LegsInRange(df, date_val, range[1], range[2])
        prices == {legs[k].start_price : k \in 1 .. Len(legs)}
                    \cup {legs[k].end_price : k \in 1 .. Len(legs)}
    IN  [Date_JST |-> date_val, TimeRange_JST |-> range,
         PriceMovement |->
             IF prices = {} THEN NaN
             ELSE Format3(10000 * (SetMax(prices) - SetMin(prices))),
         MaxHigh_in_Range |->
             IF prices = {} THEN NaN ELSE Format3(10000 * SetMax(prices)),
         MinLow_in_Range |->
             IF prices = {} THEN NaN ELSE Format3(10000 * SetMin(prices))]

\* df_results of calculate_intraday_volatility.py: one row per local date
\* of the legs and per range of JST_TIME_RANGES
intraday_volatility(df) ==
    LET unique_dates_jst == Unique([k \in 1 .. Len(df) |-> DateOf(df[k].start_time_jst)])
        n == Len(JST_TIME_RANGES)
    IN  [k \in 1 .. Len(unique_dates_jst) * n |->
            IntradayRow(df, unique_dates_jst[((k - 1) \div n) + 1],
                        JST_TIME_RANGES[((k - 1) % n) + 1])]

\* merged_df['EventName'].str.contains(r'□.*□', regex=True, na=False)
Problematic(event_name) ==
    \E i, j \in 1 .. Len(event_name) :
        i < j /\ event_name[i] = Box /\ event_name[j] = Box

\* the lambda of line 131 on one cell
RoundCell(cell) == IF cell = NaN THEN cell ELSE Some(Round3(cell[1]))

\* a row of df_indicators of the merge script before the merge
ScriptIndicator(csv_row) ==
    LET DateTime_JST == ToJST(csv_row.DateTime_UTC)
        Hour_JST == (DateTime_JST % MinutesPerDay) \div 60
    IN  [ID |-> csv_row.ID, Currency |-> csv_row.Currency, EventName |-> csv_row.EventName,
         DateTime_UTC |-> csv_row.DateTime_UTC, DateTime_JST |-> DateTime_JST,
         Forecast |-> ReplaceSpecial(csv_row.Forecast),
         Date_JST |-> DateOf(DateTime_JST), Hour_JST |-> Hour_JST,
         TimeRange_JST |-> get_time_range(Hour_JST)]

\* the rows of the merge script kept by the EventName filter of lines 119-124
FilterProblematic(rows) ==
    LET keep(row) == ~Problematic(row.EventName)
    IN  SelectSeq(rows, keep)

\* merged_df of merge_indicators_with_volatility.py as written to the CSV
merge_script(csv_rows, df_volatility) ==
    LET df_indicators == [k \in 1 .. Len(csv_rows) |-> ScriptIndicator(csv_rows[k])]
        matches ==
            {m \in (1 .. Len(df_indicators)) \X (1 .. Len(df_volatility)) :
                /\ df_indicators[m[1]].Date_JST = df_volatility[m[2]].Date_JST
                /\ df_indicators[m[1]].TimeRange_JST # None
                /\ df_indicators[m[1]].TimeRange_JST[1] = df_volatility[m[2]].TimeRange_JST}
        pairs == LeftMergePairs(Len(df_indicators), matches)
        merged == [k \in 1 .. Len(pairs) |->
                     LET ev == df_indicators[pairs[k][1]]
                         r == pairs[k][2]
                     IN  [ID |-> ev.ID, Currency |-> ev.Currency,
                          EventName |-> ev.EventName,
                          DateTime_UTC |-> ev.DateTime_UTC,
                          DateTime_JST |-> ev.DateTime_JST,
                          Date_JST |-> ev.Date_JST, Hour_JST |-> ev.Hour_JST,
                          TimeRange_JST |-> ev.TimeRange_JST,
                          Forecast |-> RoundCell(ev.Forecast),
                          PriceMovement |->
                              IF r = 0 THEN NaN
                              ELSE RoundCell(df_volatility[r].PriceMovement),
                          MaxHigh_in_Range |->
                              IF r = 0 THEN NaN
                              ELSE RoundCell(df_volatility[r].MaxHigh_in_Range),
                          MinLow_in_Range |->
                              IF r = 0 THEN NaN
                              ELSE RoundCell(df_volatility[r].MinLow_in_Range)]]
    IN  FilterProblematic(merged)

\* g < h for two (Currency, EventName) keys of groupby
KeyLess(g, h) == StrLess(g[1], h[1]) \/ (g[1] = h[1] /\ StrLess(g[2], h[2]))

\* the keys of df.groupby(['Currency', 'EventName']), in sorted order
GroupKeys(rows) ==
    LET keys == {<<rows[k].Currency, rows[k].EventName>> : k \in 1 .. Len(rows)}
    IN  [k \in 1 .. Cardinality(keys) |->
            CHOOSE g \in keys : Cardinality({h \in keys : KeyLess(h, g)}) = k - 1]

\* the values of a Series in ascending order
Sorted(values) ==
    [k \in 1 .. Len(values) |->
        CHOOSE v \in {values[i] : i \in 1 .. Len(values)} :
            /\ Cardinality({i \in 1 .. Len(values) : values[i] < v}) < k
            /\ k <= Cardinality({i \in 1 .. Len(values) : values[i] <= v})]

RECURSIVE SumSeq(_)
SumSeq(values) ==
    IF values = <<>> THEN 0
    ELSE values[Len(values)] + SumSeq(SubSeq(values, 1, Len(values) - 1))

\* Series.mean() and Series.median() as exact fractions
Mean(values) == Frac(SumSeq(values), Len(values))
Median(values) ==
    LET s == Sorted(values)
        n == Len(values)
    IN  IF n % 2 = 1 THEN Frac(s[(n + 1) \div 2], 1)
        ELSE Frac(s[n \div 2] + s[(n \div 2) + 1], 2)

\* Series.std(): the square root of the sample variance (ddof = 1)
Sqrt(x) == [sqrt |-> x]
Std(values) ==
    LET n == Len(values)
        squares == [i \in 1 .. n |-> values[i] * values[i]]
    IN  Sqrt(Frac(n * SumSeq(squares) - SumSeq(values) * SumSeq(values), n * (n - 1)))

\* the statistics of one (indicator, window) slot from its valid values
SlotStatisticsNoSingle(values) ==
    IF Len(values) < 2
    THEN [Volatility_Mean |-> NaN, Volatility_Median |-> NaN,
          Volatility_Std |-> NaN, Volatility_Min |-> NaN,
          Volatility_Max |-> NaN, Sample_Count |-> Len(values)]
    ELSE [Volatility_Mean |-> Some(Mean(values)),
          Volatility_Median |-> Some(Median(values)),
          Volatility_Std |-> Some(Std(values)),
          Volatility_Min |-> Some(SetMin({values[i] : i \in 1 .. Len(values)})),
          Volatility_Max |-> Some(SetMax({values[i] : i \in 1 .. Len(values)})),
          Sample_Count |-> Len(values)]
SlotStatistics(values) ==
    IF Len(values) < 2
    THEN IF Len(values) = 1
         THEN LET single_value == values[1]
              IN  [Volatility_Mean |-> Some(Frac(single_value, 1)),
                   Volatility_Median |-> Some(Frac(single_value, 1)),
                   Volatility_Std |-> Some(Sqrt(Frac(0, 1))),
                   Volatility_Min |-> Some(single_value),
                   Volatility_Max |-> Some(single_value),
                   Sample_Count |-> 1]
         ELSE [Volatility_Mean |-> NaN, Volatility_Median |-> NaN,
               Volatility_Std |-> NaN, Volatility_Min |-> NaN,
               Volatility_Max |-> NaN, Sample_Count |-> 0]
    ELSE [Volatility_Mean |-> Some(Mean(values)),
          Volatility_Median |-> Some(Median(values)),
          Volatility_Std |-> Some(Std(values)),
          Volatility_Min |-> Some(SetMin({values[i] : i \in 1 .. Len(values)})),
          Volatility_Max |-> Some(SetMax({values[i] : i \in 1 .. Len(values)})),
          Sample_Count |-> Len(values)]

\* valid_data[vol_col_name] of one group and one window
ValidValues(rows, key, w) ==
    LET valid(row) == /\ <<row.Currency, row.EventName>> = key
                      /\ row.Volatility[w] # NaN
        valid_data == SelectSeq(rows, valid)
    IN  [i \in 1 .. Len(valid_data) |-> valid_data[i].Volatility[w][1]]

\* DataProcessor.calculate_statistics: stats_list, one row per group in key
\* order and per window of FIXED_TIME_WINDOWS_JST (every merged row has all
\* the volatility columns)
calculate_statistics(rows) ==
    IF rows = <<>> THEN <<>>
    ELSE LET keys == GroupKeys(rows)
             n == Len(FIXED_TIME_WINDOWS_JST)
         IN  [k \in 1 .. Len(keys) * n |->
                LET key == keys[((k - 1) \div n) + 1]
                    w == ((k - 1) % n) + 1
                IN  [Currency |-> key[1], EventName |-> key[2],
                     TimeWindow_Slot |-> FIXED_TIME_WINDOWS_JST[w],
                     stats |-> SlotStatistics(ValidValues(rows, key, w))]]

NoTable == [called |-> FALSE, rows |-> <<>>]

\* one more row of the indicator CSV
ReadIndicatorCsv ==
    /\ Len(indicator_csv) < MaxIndicators
    /\ ~volatility_df.called
    /\ ~merged_df.called
    /\ \E csv_row \in IndicatorCsv : indicator_csv' = Append(indicator_csv, csv_row)
    /\ UNCHANGED <<volatility_df, statistics_df, merged_df>>

\* load_indicator_data, then
\* self.volatility_df = self._merge_volatility_with_indicators(daily_vol_df)
MergeVolatilityWithIndicators ==
    /\ daily_volatility_df.called
    /\ ~volatility_df.called
    /\ volatility_df' =
          [called |-> TRUE,
           rows |-> merge_volatility_with_indicators(
                        [k \in 1 .. Len(indicator_csv) |->
                            load_indicator_data(indicator_csv[k])],
                        daily_volatility_df.rows)]
    /\ UNCHANGED <<indicator_csv, statistics_df, merged_df>>

\* self.calculate_statistics()
CalculateStatistics ==
    /\ volatility_df.called
    /\ ~statistics_df.called
    /\ statistics_df' = [called |-> TRUE, rows |-> calculate_statistics(volatility_df.rows)]
    /\ UNCHANGED <<indicator_csv, volatility_df, merged_df>>

\* calculate_intraday_volatility.py, then merge_indicators_with_volatility.py
\* on the table it wrote; without legs no table is written
MergeScript ==
    /\ daily_volatility_df.called
    /\ dp_zigzag_df # <<>>
    /\ ~merged_df.called
    /\ merged_df' =
          [called |-> TRUE,
           rows |-> merge_script(indicator_csv, intraday_volatility(dp_zigzag_df))]
    /\ UNCHANGED <<indicator_csv, volatility_df, statistics_df>>

-----------------------------------------------------------------------------
(* StatisticalProcessor: statistics per indicator of the analysed events  *)
(* and the classification of the indicators.  A row of analyzed_df is     *)
(* [Currency, EventName, target]; target values, means and thresholds are *)
(* in units of 1/10000.                                                   *)

\* largest number of rows of analyzed_df
MaxAnalyzed == 4

\* min_samples of StatisticalProcessor.__init__ when the caller gives none
DefaultMinSamples == 5
\* min_samples of the processor of TestStatisticalProcessor.setUp
TestMinSamples == 2

\* values of the target column: 0.0006, 0.5, 1.5, 2.5
TargetValues == {6, 5000, 15000, 25000}

\* the indicators of the analysed events
AnalyzedKeys == {<<<<"U", "S", "D">>, <<"G", "D", "P">>>>, <<<<"E", "U", "R">>, <<"C", "P", "I">>>>}

\* category_thresholds given to the processor: none, or (1.0, 2.0)
Thresholds == {None, <<10000, 20000>>}

\* Series.round(3) of the value num / den: the nearest multiple of 0.001,
\* a value halfway between two of them going to the even one
RoundFrac3(num, den) ==
    LET q == num \div (10 * den)
        rest == num - q * 10 * den
    IN  IF 2 * rest < 10 * den THEN 10 * q
        ELSE IF 2 * rest > 10 * den THEN 10 * (q + 1)
        ELSE IF q % 2 = 0 THEN 10 * q ELSE 10 * (q + 1)

\* the rounded standard deviation, kept as a term over the sample
RoundStd3(values) == [round3 |-> [std |-> Sorted(values)]]

\* valid_data of one group: the target values of its rows, in table order
TargetValuesOf(rows, key) ==
    LET valid(row) == /\ <<row.Currency, row.EventName>> = key
                      /\ row.target # NaN
        valid_data == SelectSeq(rows, valid)
    IN  [i \in 1 .. Len(valid_data) |-> valid_data[i].target[1]]

\* the row of stats of one group
GroupStatistics(key, values) ==
    [Currency |-> key[1], EventName |-> key[2],
     target_mean |-> RoundFrac3(SumSeq(values), Len(values)),
     target_median |-> RoundFrac3(Median(values).num, Median(values).den),
     target_std |-> IF Len(values) < 2 THEN NaN ELSE Some(RoundStd3(values)),
     target_min |-> RoundFrac3(SetMin({values[i] : i \in 1 .. Len(values)}), 1),
     target_max |-> RoundFrac3(SetMax({values[i] : i \in 1 .. Len(values)}), 1),
     target_count |-> Len(values)]

\* stats[stats[count_col] >= self.min_samples]
EnoughSamplesStrict(count, min_samples) == count > min_samples
EnoughSamples(count, min_samples) == count >= min_samples

\* StatisticalProcessor.calculate_indicator_statistics(analyzed_df) with the
\* default group columns
calculate_indicator_statistics(df, min_samples) ==
    IF ~df.has_target THEN <<>>
    ELSE LET valid(row) == row.target # NaN
             valid_data == SelectSeq(df.rows, valid)
             keys == GroupKeys(valid_data)
             stats == [k \in 1 .. Len(keys) |->
                         GroupStatistics(keys[k], TargetValuesOf(valid_data, keys[k]))]
             enough(row) == EnoughSamples(row.target_count, min_samples)
         IN  SelectSeq(stats, enough)

\* Series.quantile(p / 100) with linear interpolation, over the sorted
\* values x: x[f] + (h - f) * (x[f + 1] - x[f]) at h = (n - 1) * p / 100,
\* as a fraction of denominator 100
Quantile(values, p) ==
    LET x == Sorted(values)
        n == Len(values)
        f == ((n - 1) * p) \div 100
        g == (n - 1) * p - 100 * f
    IN  IF g = 0 THEN Frac(100 * x[f + 1], 100)
        ELSE Frac(100 * x[f + 1] + g * (x[f + 2] - x[f + 1]), 100)

\* x < q for a mean x and a threshold q
Below(x, q) == x * q.den < q.num

\* get_category(x); Small, Medium, Large stand for its three return values
get_category_closed(x, q1, q2) ==
    IF x * q1.den <= q1.num THEN "Small"
    ELSE IF x * q2.den <= q2.num THEN "Medium"
    ELSE "Large"
get_category(x, q1, q2) ==
    IF Below(x, q1) THEN "Small"
    ELSE IF Below(x, q2) THEN "Medium"
    ELSE "Large"

\* the thresholds (q1, q2) classify_indicators uses; both are NaN for the
\* percentiles of an empty table
ThresholdsUsed(means, method, category_thresholds) ==
    IF category_thresholds # None
    THEN Some(<<Frac(category_thresholds[1], 1), Frac(category_thresholds[2], 1)>>)
    ELSE IF method = "percentile"
         THEN IF means = <<>> THEN NaN
              ELSE Some(<<Quantile(means, 33), Quantile(means, 67)>>)
         ELSE Some(<<Frac(5, 1), Frac(10, 1)>>)

\* StatisticalProcessor.classify_indicators(stats_df, method): the rows
\* with their Volatility_Category, stats_df itself for an unknown method or
\* a table without the mean column
classify_indicators(stats_rows, method, category_thresholds) ==
    IF method \notin {"percentile", "absolute"}
    THEN [k \in 1 .. Len(stats_rows) |->
            [stats |-> stats_rows[k], Volatility_Category |-> Absent]]
    ELSE LET means == [k \in 1 .. Len(stats_rows) |-> stats_rows[k].target_mean]
             q == ThresholdsUsed(means, method, category_thresholds)[1]
         IN  [k \in 1 .. Len(stats_rows) |->
                [stats |-> stats_rows[k],
                 Volatility_Category |->
                     Some(get_category(stats_rows[k].target_mean, q[1], q[2]))]]

NoClassified == [called |-> FALSE, method |-> "", thresholds |-> NaN, rows |-> <<>>]

\* one more row of the analysed events
LoadAnalyzed ==
    /\ Len(analyzed_df.rows) < MaxAnalyzed
    /\ ~stats_df.called
    /\ \E key \in AnalyzedKeys, target \in {NaN} \cup {Some(v) : v \in TargetValues} :
          analyzed_df' = [analyzed_df EXCEPT !.rows =
                            Append(@, [Currency |-> key[1], EventName |-> key[2],
                                       target |-> target])]
    /\ UNCHANGED <<processor, stats_df, classified_df>>

\* indicator_stats = self.calculate_indicator_statistics(analyzed_df)
CalculateIndicatorStatistics ==
    /\ ~stats_df.called
    /\ stats_df' = [called |-> TRUE,
                    rows |-> calculate_indicator_statistics(analyzed_df,
                                                            processor.min_samples)]
    /\ UNCHANGED <<processor, analyzed_df, classified_df>>

\* classified_stats = self.classify_indicators(indicator_stats, method)
ClassifyIndicators ==
    /\ stats_df.called
    /\ ~classified_df.called
    /\ \E method \in {"percentile", "absolute", "other"} :
          classified_df' =
             [called |-> TRUE, method |-> method,
              thresholds |->
                  LET means == [k \in 1 .. Len(stats_df.rows) |->
                                   stats_df.rows[k].target_mean]
                  IN  IF method \in {"percentile", "absolute"}
                      THEN ThresholdsUsed(means, method, processor.category_thresholds)
                      ELSE NaN,
              rows |-> classify_indicators(stats_df.rows, method,
                                           processor.category_thresholds)]
    /\ UNCHANGED <<processor, analyzed_df, stats_df>>

-----------------------------------------------------------------------------
(* MultiscaleAnalyzer: ratios of the movements of the horizons to the     *)
(* reference horizon, and the propagation between successive horizons.    *)
(* A row of the analysed table maps each horizon that has a column         *)
(* post_<s>min_price_movement to its movement, or to NaN.                 *)

\* largest number of rows of the analysed table
MaxScaleRows == 5

\* the rows analyze_propagation_effects needs for a pair of horizons
MinValidRows == 5

\* the horizons of the columns of the table TestMultiscaleAnalysis.setUp builds
TableScales == {5, 15, 30}

\* reference_scale of the analyzer
ReferenceScale == 15

\* the time_scales lists callers give: none, the list of the tests, other
\* orders of it, and lists without the reference scale
CallerScales ==
    {<<>>, <<5, 15, 30>>, <<30, 5, 15>>, <<30, 15, 5>>, <<5, 30>>, <<30, 5>>}

\* the column sets of the analysed table: every horizon, or no column of
\* the reference scale
ColumnSets == {TableScales, TableScales \ {ReferenceScale}}

\* the movements of one analysed event, by horizon
ScaleRowValues ==
    { (5 :> Some(2)) @@ (15 :> Some(4)) @@ (30 :> Some(6)),
      (5 :> Some(1)) @@ (15 :> Some(0)) @@ (30 :> Some(2)),
      (5 :> NaN) @@ (15 :> Some(4)) @@ (30 :> Some(0)),
      (5 :> Some(2)) @@ (15 :> NaN) @@ (30 :> Some(6)) }

\* the row of a table with the given columns
ScaleRow(values, columns) == [s \in columns |-> values[s]]

\* x in the list
InList(list, x) == \E k \in 1 .. Len(list) : list[k] = x

\* MultiscaleAnalyzer(time_scales, reference_scale): self.time_scales and
\* self.reference_scale after __init__
MultiscaleAnalyzer(time_scales, reference_scale) ==
    LET given == IF time_scales # <<>> THEN time_scales ELSE <<5, 15, 30, 60>>
    IN  [time_scales |-> IF InList(given, reference_scale) THEN given
                         ELSE Sorted(Append(given, reference_scale)),
         reference_scale |-> reference_scale]

\* the lambda of lines 93-97: row[scale_col] / row[ref_movement_col]
ScaleRatioZeroDenominator(x, ref) ==
    IF x # NaN /\ ref # NaN THEN Some(Frac(x[1], ref[1])) ELSE NaN
ScaleRatio(x, ref) ==
    IF x # NaN /\ ref # NaN /\ ref[1] # 0 THEN Some(Frac(x[1], ref[1])) ELSE NaN

\* the lambda of lines 102-104: np.log(x) if pd.notna(x) and x > 0
NormRatio(ratio) ==
    IF ratio # NaN /\ ratio[1].num > 0 THEN Some([ln |-> ratio[1]]) ELSE NaN

\* the scales calculate_scale_ratios adds ratio columns for
RatioScales(analyzer, df) ==
    IF analyzer.reference_scale \notin df.columns THEN {}
    ELSE {s \in df.columns : InList(analyzer.time_scales, s)
                               /\ s # analyzer.reference_scale}

\* the table with the ratio columns of the given scales
WithRatios(analyzer, df, scales) ==
    [columns |-> df.columns, ratio_scales |-> scales,
     rows |-> [k \in 1 .. Len(df.rows) |->
                  [movement |-> df.rows[k],
                   scale_ratio |->
                      [s \in scales |->
                          ScaleRatio(df.rows[k][s], df.rows[k][analyzer.reference_scale])],
                   norm_scale_ratio |->
                      [s \in scales |->
                          NormRatio(ScaleRatio(df.rows[k][s],
                                               df.rows[k][analyzer.reference_scale]))]]]]

\* MultiscaleAnalyzer.calculate_scale_ratios(analyzed_df): the tables it can
\* return.  On a table without rows DataFrame.apply gives a DataFrame, and
\* depending on the pandas version its assignment to the ratio column
\* raises, in which case analyzed_df is returned as it is.
calculate_scale_ratios(analyzer, df) ==
    LET scales == RatioScales(analyzer, df)
    IN  IF df.rows = <<>> /\ scales # {}
        THEN {WithRatios(analyzer, df, scales), WithRatios(analyzer, df, {})}
        ELSE {WithRatios(analyzer, df, scales)}

\* valid_data of a pair of scales: the numbers of the rows with both movements
ValidPairRows(df, smaller_scale, larger_scale) ==
    {k \in 1 .. Len(df.rows) :
        df.rows[k][smaller_scale] # NaN /\ df.rows[k][larger_scale] # NaN}

\* the pairs (i, i + 1) of the list whose columns exist and that have
\* enough valid rows
PropagationPairs(analyzer, df) ==
    LET ts == analyzer.time_scales
        kept(i) == /\ ts[i] \in df.columns
                   /\ ts[i + 1] \in df.columns
                   /\ Cardinality(ValidPairRows(df, ts[i], ts[i + 1])) >= MinValidRows
    IN  SelectSeq([i \in 1 .. Len(ts) - 1 |-> i], kept)

\* valid_data[larger_col] / valid_data[smaller_col].replace(0, np.nan)
GrowthRatio(row, smaller_scale, larger_scale) ==
    IF row[smaller_scale][1] = 0 THEN NaN
    ELSE Some(Frac(row[larger_scale][1], row[smaller_scale][1]))

\* all x values of the regression are identical
IdenticalX(df, smaller_scale, larger_scale) ==
    \A j, k \in ValidPairRows(df, smaller_scale, larger_scale) :
        df.rows[j][smaller_scale] = df.rows[k][smaller_scale]

\* the row of results for the pair (time_scales[i], time_scales[i + 1]);
\* the correlation, the mean ratio and the regression are kept as terms
\* over the valid rows
PropagationRow(analyzer, df, i) ==
    LET smaller_scale == analyzer.time_scales[i]
        larger_scale == analyzer.time_scales[i + 1]
        valid_data == ValidPairRows(df, smaller_scale, larger_scale)
    IN  [smaller_scale |-> smaller_scale, larger_scale |-> larger_scale,
         count |-> Cardinality(valid_data),
         valid_data |-> valid_data,
         growth_ratios |-> [k \in valid_data |->
                              GrowthRatio(df.rows[k], smaller_scale, larger_scale)]]

\* MultiscaleAnalyzer.analyze_propagation_effects(analyzed_df): the tables
\* it can return.  stats.linregress raises, or not, depending on the scipy
\* version when all x values are identical; the exception handler then
\* returns an empty table.
analyze_propagation_effects(analyzer, df) ==
    LET pairs == PropagationPairs(analyzer, df)
        results == [k \in 1 .. Len(pairs) |-> PropagationRow(analyzer, df, pairs[k])]
        raises == \E k \in 1 .. Len(pairs) :
                     IdenticalX(df, analyzer.time_scales[pairs[k]],
                                analyzer.time_scales[pairs[k] + 1])
    IN  IF raises THEN {results, <<>>} ELSE {results}

NoRatioTable == [called |-> FALSE, columns |-> {}, ratio_scales |-> {}, rows |-> <<>>]

\* one more analysed event
LoadScaleRow ==
    /\ Len(scale_df.rows) < MaxScaleRows
    /\ ~ratio_df.called
    /\ ~propagation_df.called
    /\ \E values \in ScaleRowValues :
          scale_df' = [scale_df EXCEPT !.rows = Append(@, ScaleRow(values, scale_df.columns))]
    /\ UNCHANGED <<scale_analyzer, ratio_df, propagation_df>>

\* result_df = self.analyzer.calculate_scale_ratios(analyzed_df)
CalculateScaleRatios ==
    /\ ~ratio_df.called
    /\ \E result \in calculate_scale_ratios(scale_analyzer, scale_df) :
          ratio_df' = [called |-> TRUE, columns |-> result.columns,
                       ratio_scales |-> result.ratio_scales, rows |-> result.rows]
    /\ UNCHANGED <<scale_analyzer, scale_df, propagation_df>>

\* propagation_df = self.analyzer.analyze_propagation_effects(analyzed_df)
AnalyzePropagationEffects ==
    /\ ~propagation_df.called
    /\ \E result \in analyze_propagation_effects(scale_analyzer, scale_df) :
          propagation_df' = [called |-> TRUE, rows |-> result]
    /\ UNCHANGED <<scale_analyzer, scale_df, ratio_df>>

-----------------------------------------------------------------------------
(* detect_outliers (statistical_processor.py) *)

\* largest length of a data series handed to detect_outliers
MaxSeries == 5

\* the values a series may hold, next to NaN
SeriesValues == {1, 2, 20}

\* the methods asked for: the two the function knows and another one
OutlierMethods == {"iqr", "zscore", "other"}

\* the thresholds asked for: 1 and the default 1.5
OutlierThresholds == {Frac(1, 1), Frac(3, 2)}

\* valid_data = data_series.dropna(), as plain numbers
DropNa(series) ==
    LET notna(x) == x # NaN
        kept == SelectSeq(series, notna)
    IN  [i \in 1 .. Len(kept) |-> kept[i][1]]

\* pd.Series([False] * len(data_series), index=data_series.index)
AllFalse(series) == [i \in 1 .. Len(series) |-> FALSE]

\* TooFewValid for a minimum of 3 values
TooFewValidOfThree(valid_data) == Len(valid_data) < 3

\* len(valid_data) < 4
TooFewValid(valid_data) == Len(valid_data) < 4

\* (data_series < lower_bound) | (data_series > upper_bound) for the
\* quartiles q1, q3 of the valid values; a comparison with NaN is False
IqrOutliers(series, valid_data, threshold) ==
    LET q1 == Quantile(valid_data, 25)
        q3 == Quantile(valid_data, 75)
        iqr == q3.num - q1.num
        lower_bound == threshold.den * q1.num - threshold.num * iqr
        upper_bound == threshold.den * q3.num + threshold.num * iqr
        scaled(x) == 100 * threshold.den * x
    IN  [i \in 1 .. Len(series) |->
            /\ series[i] # NaN
            /\ \/ scaled(series[i][1]) < lower_bound
               \/ scaled(series[i][1]) > upper_bound]

\* std == 0, for the sample variance of the valid values
ZeroStd(valid_data) == Std(valid_data).sqrt.num = 0

\* abs((data_series - mean) / std) > threshold, compared by the squares:
\* (n x - sum)^2 / n^2 > threshold^2 * variance
ZscoreOutliers(series, valid_data, threshold) ==
    LET n == Len(valid_data)
        sum == SumSeq(valid_data)
        variance == Std(valid_data).sqrt
        dev(x) == (n * x - sum) * (n * x - sum)
    IN  [i \in 1 .. Len(series) |->
            /\ series[i] # NaN
            /\ dev(series[i][1]) * variance.den * threshold.den * threshold.den
                  > threshold.num * threshold.num * n * n * variance.num]

\* detect_outliers(data_series, method, threshold): the flags returned
detect_outliers(series, method, threshold) ==
    LET valid_data == DropNa(series)
    IN  IF TooFewValid(valid_data) THEN AllFalse(series)
        ELSE IF method = "iqr" THEN IqrOutliers(series, valid_data, threshold)
        ELSE IF method = "zscore"
        THEN IF ZeroStd(valid_data) THEN AllFalse(series)
             ELSE ZscoreOutliers(series, valid_data, threshold)
        ELSE AllFalse(series)

\* the series of test_detect_outliers
TestSeries ==
    [i \in 1 .. 10 |-> Some(<<1, 2, 3, 4, 5, 20, 6, 7, 8, 9>>[i])]

NoOutliers == [called |-> FALSE, method |-> "iqr", threshold |-> Frac(3, 2),
               flags |-> <<>>]

\* one more element of the series
AppendValue ==
    /\ Len(data_series) < MaxSeries
    /\ ~outliers.called
    /\ \E x \in {NaN} \cup {Some(v) : v \in SeriesValues} :
          data_series' = Append(data_series, x)
    /\ UNCHANGED outliers

\* outliers = detect_outliers(data_series, method=method, threshold=threshold)
DetectOutliers ==
    /\ ~outliers.called
    /\ \E method \in OutlierMethods, threshold \in OutlierThresholds :
          outliers' = [called |-> TRUE, method |-> method, threshold |-> threshold,
                       flags |-> detect_outliers(data_series, method, threshold)]
    /\ UNCHANGED data_series

-----------------------------------------------------------------------------
(* mt5_integration.py: EconomicIndicatorFileHandler and MT5Integration.   *)
(* The observer thread runs the handler scheduled by start_monitoring on   *)
(* the events of csv_dir; the main thread runs _check_existing_files.      *)
(* Both call process_indicator_file, whose attempts and sleeps are steps.  *)

\* largest --max-retries the integration is started with
MaxRetries == 2
\* largest number of files the producer writes during a run
MaxWrites == 2

\* the CSV files of csv_dir matching EconomicIndicators_*.csv
CsvFiles == {"EconomicIndicators_1.csv", "EconomicIndicators_2.csv"}

\* what pd.read_csv finds: no file, rows with all required columns, a
\* header without rows, a required column missing, a file of zero bytes
FileContents == {"absent", "rows", "no_rows", "missing_column", "zero_bytes"}

NoFile == [content |-> "absent", done |-> FALSE]

\* the two threads that call process_indicator_file
Workers == {"observer", "main"}

IdleWorker == [pc |-> "idle", file |-> "", retries |-> 0, attempts |-> 0, sleeps |-> 0]

NoReturn == [file |-> "", result |-> FALSE, attempts |-> 0, sleeps |-> 0]

\* the calls of process_indicator_file made so far
NoCalls == [started |-> [f \in CsvFiles |-> 0], succeeded |-> {},
            last |-> [t \in Workers |-> NoReturn]]

NoScan == [state |-> "not_started", csv_files |-> <<>>]

\* the orders in which glob may list the files present
GlobOrders(dir) ==
    LET present == {f \in CsvFiles : dir[f].content # "absent"}
    IN  {order \in UNION {[1 .. n -> present] : n \in {Cardinality(present)}} :
            \A i, j \in DOMAIN order : i # j => order[i] # order[j]}

\* pd.read_csv(file_path) raises: no file, or no columns to parse
ReadRaises(content) == content \in {"absent", "zero_bytes"}

\* what one turn of the while loop of process_indicator_file ends with:
\* True, False, or an exception caught by the handler of the loop
AttemptOutcome(content) ==
    IF ReadRaises(content) THEN "raised"
    ELSE IF content = "no_rows" THEN "False"
    ELSE IF content = "missing_column" THEN "False"
    ELSE "True"

\* the handler calls self.callback_function(file_path):
\* process_indicator_file starts with retries = 0
BeginCall(t, f) ==
    /\ worker' = [worker EXCEPT ![t] = [IdleWorker EXCEPT !.pc = "try", !.file = f]]
    /\ call_log' = [call_log EXCEPT !.started[f] = @ + 1]

\* self.processed_files.add(str(file_path)) follows the callback whenever
\* it returns, whatever it returns
MarksProcessed(result) == TRUE

\* process_indicator_file returns result to the handler of thread t; the
\* handler of the observer marks the file, the one _check_existing_files
\* made for this file is dropped
ReturnTo(t, result, attempts) ==
    LET f == worker[t].file
    IN  /\ worker' = [worker EXCEPT ![t] = IdleWorker]
        /\ call_log' = [call_log EXCEPT
              !.succeeded = IF result THEN @ \cup {f} ELSE @,
              !.last[t] = [file |-> f, result |-> result, attempts |-> attempts,
                           sleeps |-> worker[t].sleeps]]
        /\ processed_files' = IF t = "observer" /\ MarksProcessed(result)
                              THEN processed_files \cup {f}
                              ELSE processed_files

\* one turn of "while retries <= self.max_retries" in thread t
Attempt(t) ==
    /\ worker[t].pc = "try"
    /\ LET w == worker[t]
           outcome == AttemptOutcome(csv_dir[w.file].content)
       IN  IF w.retries > mt5.max_retries THEN ReturnTo(t, FALSE, w.attempts)
           ELSE IF outcome = "True" THEN ReturnTo(t, TRUE, w.attempts + 1)
           ELSE IF outcome = "False" THEN ReturnTo(t, FALSE, w.attempts + 1)
           ELSE IF w.retries + 1 <= mt5.max_retries
           THEN /\ worker' = [worker EXCEPT ![t] =
                                 [w EXCEPT !.pc = "sleep", !.retries = @ + 1,
                                           !.attempts = @ + 1, !.sleeps = @ + 1]]
                /\ UNCHANGED <<call_log, processed_files>>
           ELSE ReturnTo(t, FALSE, w.attempts + 1)
    /\ UNCHANGED <<mt5, csv_dir, writes, event_queue, scan>>

\* time.sleep(self.retry_interval) returns
Wake(t) ==
    /\ worker[t].pc = "sleep"
    /\ worker' = [worker EXCEPT ![t].pc = "try"]
    /\ UNCHANGED <<mt5, csv_dir, writes, event_queue, processed_files, scan, call_log>>

\* the observer thread hands the next event to on_created / on_modified:
\* _process_file_event(event)
ProcessFileEvent ==
    /\ worker["observer"].pc = "idle"
    /\ event_queue # <<>>
    /\ LET event == Head(event_queue)
       IN  IF /\ ~event.flag
              /\ event.file \notin processed_files
              /\ csv_dir[event.file].done
           THEN BeginCall("observer", event.file)
           ELSE UNCHANGED <<worker, call_log>>
    /\ event_queue' = Tail(event_queue)
    /\ UNCHANGED <<mt5, csv_dir, writes, processed_files, scan>>

\* _check_existing_files: csv_files = list(self.csv_dir.glob(...))
CheckExistingFiles ==
    /\ scan.state = "not_started"
    /\ \E order \in GlobOrders(csv_dir) :
          scan' = [state |-> "scanning", csv_files |-> order]
    /\ UNCHANGED <<mt5, csv_dir, writes, event_queue, processed_files, worker, call_log>>

\* one turn of "for csv_file in csv_files": a new handler, with an empty
\* processed_files, gets a FileCreatedEvent if the flag file exists
CheckExistingFile ==
    /\ scan.state = "scanning"
    /\ scan.csv_files # <<>>
    /\ worker["main"].pc = "idle"
    /\ LET csv_file == Head(scan.csv_files)
       IN  IF csv_dir[csv_file].done
           THEN BeginCall("main", csv_file)
           ELSE UNCHANGED <<worker, call_log>>
    /\ scan' = [scan EXCEPT !.csv_files = Tail(@)]
    /\ UNCHANGED <<mt5, csv_dir, writes, event_queue, processed_files>>

\* the loop is over: "while True: time.sleep(1)"
FinishCheck ==
    /\ scan.state = "scanning"
    /\ scan.csv_files = <<>>
    /\ worker["main"].pc = "idle"
    /\ scan' = [scan EXCEPT !.state = "monitoring"]
    /\ UNCHANGED <<mt5, csv_dir, writes, event_queue, processed_files, worker, call_log>>

\* the producer creates or rewrites a CSV file: the observer gets a
\* created or modified event for it
WriteCsv ==
    /\ writes < MaxWrites
    /\ \E f \in CsvFiles, content \in FileContents \ {"absent"} :
          /\ csv_dir' = [csv_dir EXCEPT ![f].content = content]
          /\ event_queue' = Append(event_queue, [file |-> f, flag |-> FALSE])
    /\ writes' = writes + 1
    /\ UNCHANGED <<mt5, processed_files, worker, scan, call_log>>

\* the producer creates the flag file of a CSV file: the observer gets a
\* created event for the flag file
WriteDone ==
    /\ writes < MaxWrites
    /\ \E f \in CsvFiles :
          /\ csv_dir[f].content # "absent"
          /\ ~csv_dir[f].done
          /\ csv_dir' = [csv_dir EXCEPT ![f].done = TRUE]
          /\ event_queue' = Append(event_queue, [file |-> f, flag |-> TRUE])
    /\ writes' = writes + 1
    /\ UNCHANGED <<mt5, processed_files, worker, scan, call_log>>

-----------------------------------------------------------------------------
(* The specifications *)

\* Each specification starts with its own table empty and holds the
\* variables of the others at their initial values.
InitWindow ==
    /\ zigzag_df \in {NewFrame(l, <<>>) : l \in WindowLayouts}
    /\ window_data = NoWindow
    /\ movement_results = NoMovement
    /\ indicator_row = [time_col |-> "none", minute |-> 0]
    /\ pre_results = NoPre
    /\ post_results = NoPost
    /\ ratio_results = NoRatios
    /\ dp_zigzag_df = <<>>
    /\ daily_volatility_df = NoDaily
    /\ hour_jst = 0
    /\ time_range = Absent
    /\ indicators_df = <<>>
    /\ results_df = NoResults
    /\ indicator_csv = <<>>
    /\ volatility_df = NoTable
    /\ statistics_df = NoTable
    /\ merged_df = NoTable
    /\ processor = [min_samples |-> DefaultMinSamples, category_thresholds |-> None]
    /\ analyzed_df = [has_target |-> TRUE, rows |-> <<>>]
    /\ stats_df = NoTable
    /\ classified_df = NoClassified
    /\ scale_analyzer = MultiscaleAnalyzer(<<>>, ReferenceScale)
    /\ scale_df = [columns |-> TableScales, rows |-> <<>>]
    /\ ratio_df = NoRatioTable
    /\ propagation_df = NoTable
    /\ speed_results = NoSpeed
    /\ data_series = <<>>
    /\ outliers = NoOutliers
    /\ mt5 = [max_retries |-> 0]
    /\ csv_dir = [f \in CsvFiles |-> NoFile]
    /\ writes = 0
    /\ event_queue = <<>>
    /\ processed_files = {}
    /\ worker = [t \in Workers |-> IdleWorker]
    /\ scan = NoScan
    /\ call_log = NoCalls

Init ==
    /\ zigzag_df \in {NewFrame(l, <<>>) : l \in AsymLayouts}
    /\ window_data = NoWindow
    /\ movement_results = NoMovement
    /\ indicator_row \in IndicatorRows
    /\ pre_results = NoPre
    /\ post_results = NoPost
    /\ ratio_results = NoRatios
    /\ dp_zigzag_df = <<>>
    /\ daily_volatility_df = NoDaily
    /\ hour_jst = 0
    /\ time_range = Absent
    /\ indicators_df = <<>>
    /\ results_df = NoResults
    /\ indicator_csv = <<>>
    /\ volatility_df = NoTable
    /\ statistics_df = NoTable
    /\ merged_df = NoTable
    /\ processor = [min_samples |-> DefaultMinSamples, category_thresholds |-> None]
    /\ analyzed_df = [has_target |-> TRUE, rows |-> <<>>]
    /\ stats_df = NoTable
    /\ classified_df = NoClassified
    /\ scale_analyzer = MultiscaleAnalyzer(<<>>, ReferenceScale)
    /\ scale_df = [columns |-> TableScales, rows |-> <<>>]
    /\ ratio_df = NoRatioTable
    /\ propagation_df = NoTable
    /\ speed_results = NoSpeed
    /\ data_series = <<>>
    /\ outliers = NoOutliers
    /\ mt5 = [max_retries |-> 0]
    /\ csv_dir = [f \in CsvFiles |-> NoFile]
    /\ writes = 0
    /\ event_queue = <<>>
    /\ processed_files = {}
    /\ worker = [t \in Workers |-> IdleWorker]
    /\ scan = NoScan
    /\ call_log = NoCalls

InitDaily ==
    /\ zigzag_df = EmptyFrame
    /\ window_data = NoWindow
    /\ movement_results = NoMovement
    /\ indicator_row = [time_col |-> "none", minute |-> 0]
    /\ pre_results = NoPre
    /\ post_results = NoPost
    /\ ratio_results = NoRatios
    /\ dp_zigzag_df = <<>>
    /\ daily_volatility_df = NoDaily
    /\ hour_jst = 0
    /\ time_range = Absent
    /\ indicators_df = <<>>
    /\ results_df = NoResults
    /\ indicator_csv = <<>>
    /\ volatility_df = NoTable
    /\ statistics_df = NoTable
    /\ merged_df = NoTable
    /\ processor = [min_samples |-> DefaultMinSamples, category_thresholds |-> None]
    /\ analyzed_df = [has_target |-> TRUE, rows |-> <<>>]
    /\ stats_df = NoTable
    /\ classified_df = NoClassified
    /\ scale_analyzer = MultiscaleAnalyzer(<<>>, ReferenceScale)
    /\ scale_df = [columns |-> TableScales, rows |-> <<>>]
    /\ ratio_df = NoRatioTable
    /\ propagation_df = NoTable
    /\ speed_results = NoSpeed
    /\ data_series = <<>>
    /\ outliers = NoOutliers
    /\ mt5 = [max_retries |-> 0]
    /\ csv_dir = [f \in CsvFiles |-> NoFile]
    /\ writes = 0
    /\ event_queue = <<>>
    /\ processed_files = {}
    /\ worker = [t \in Workers |-> IdleWorker]
    /\ scan = NoScan
    /\ call_log = NoCalls

\* extract_zigzag_window and calculate_price_movement on a pivot table
NextWindow ==
    \/ LoadPivot(WindowMinutes)
          /\ UNCHANGED <<asymVars, dailyVars, batchVars, mergeVars, statVars,
                         scaleVars, outlierVars, monitorVars>>
    \/ ExtractZigzagWindow
          /\ UNCHANGED <<asymVars, dailyVars, batchVars, mergeVars, statVars,
                         scaleVars, outlierVars, monitorVars>>
    \/ CalculatePriceMovement
          /\ UNCHANGED <<asymVars, dailyVars, batchVars, mergeVars, statVars,
                         scaleVars, outlierVars, monitorVars>>
    \/ CalculateMovementSpeed
          /\ UNCHANGED <<asymVars, dailyVars, batchVars, mergeVars, statVars,
                         scaleVars, outlierVars, monitorVars>>

SpecWindow == InitWindow /\ [][NextWindow]_vars

\* AsymmetricAnalyzer on one indicator row
Next ==
    \/ LoadEventPivot
          /\ UNCHANGED <<windowVars, dailyVars, batchVars, mergeVars,
                         statVars, scaleVars, outlierVars, monitorVars>>
    \/ AnalyzePreEvent
          /\ UNCHANGED <<windowVars, dailyVars, batchVars, mergeVars,
                         statVars, scaleVars, outlierVars, monitorVars>>
    \/ AnalyzePostEvent
          /\ UNCHANGED <<windowVars, dailyVars, batchVars, mergeVars,
                         statVars, scaleVars, outlierVars, monitorVars>>
    \/ CalculateRatios
          /\ UNCHANGED <<windowVars, dailyVars, batchVars, mergeVars,
                         statVars, scaleVars, outlierVars, monitorVars>>

Spec == Init /\ [][Next]_vars

\* batch_process_indicators on a pivot table and a table of events
InitBatch ==
    /\ zigzag_df \in {NewFrame(l, <<>>) : l \in AsymLayouts}
    /\ window_data = NoWindow
    /\ movement_results = NoMovement
    /\ indicator_row = [time_col |-> "none", minute |-> 0]
    /\ pre_results = NoPre
    /\ post_results = NoPost
    /\ ratio_results = NoRatios
    /\ dp_zigzag_df = <<>>
    /\ daily_volatility_df = NoDaily
    /\ hour_jst = 0
    /\ time_range = Absent
    /\ indicators_df = <<>>
    /\ results_df = NoResults
    /\ indicator_csv = <<>>
    /\ volatility_df = NoTable
    /\ statistics_df = NoTable
    /\ merged_df = NoTable
    /\ processor = [min_samples |-> DefaultMinSamples, category_thresholds |-> None]
    /\ analyzed_df = [has_target |-> TRUE, rows |-> <<>>]
    /\ stats_df = NoTable
    /\ classified_df = NoClassified
    /\ scale_analyzer = MultiscaleAnalyzer(<<>>, ReferenceScale)
    /\ scale_df = [columns |-> TableScales, rows |-> <<>>]
    /\ ratio_df = NoRatioTable
    /\ propagation_df = NoTable
    /\ speed_results = NoSpeed
    /\ data_series = <<>>
    /\ outliers = NoOutliers
    /\ mt5 = [max_retries |-> 0]
    /\ csv_dir = [f \in CsvFiles |-> NoFile]
    /\ writes = 0
    /\ event_queue = <<>>
    /\ processed_files = {}
    /\ worker = [t \in Workers |-> IdleWorker]
    /\ scan = NoScan
    /\ call_log = NoCalls

NextBatch ==
    \/ LoadBatchPivot
          /\ UNCHANGED <<windowVars, asymVars, dailyVars, mergeVars, statVars,
                         scaleVars, outlierVars, monitorVars>>
    \/ LoadIndicator
          /\ UNCHANGED <<windowVars, asymVars, dailyVars, mergeVars, statVars,
                         scaleVars, outlierVars, monitorVars>>
    \/ AnalyzeIndicator
          /\ UNCHANGED <<windowVars, asymVars, dailyVars, mergeVars, statVars,
                         scaleVars, outlierVars, monitorVars>>
    \/ ReturnResults
          /\ UNCHANGED <<windowVars, asymVars, dailyVars, mergeVars, statVars,
                         scaleVars, outlierVars, monitorVars>>

SpecBatch == InitBatch /\ [][NextBatch]_vars

\* DataProcessor's daily fixed-window volatility and the hour lookup
NextDaily ==
    \/ LoadLeg
          /\ UNCHANGED <<zigzag_df, windowVars, asymVars, batchVars,
                         mergeVars, statVars, scaleVars, outlierVars,
                         monitorVars>>
    \/ CalculateDailyVolatility
          /\ UNCHANGED <<zigzag_df, windowVars, asymVars, batchVars,
                         mergeVars, statVars, scaleVars, outlierVars,
                         monitorVars>>
    \/ GetTimeRange
          /\ UNCHANGED <<zigzag_df, windowVars, asymVars, batchVars,
                         mergeVars, statVars, scaleVars, outlierVars,
                         monitorVars>>

SpecDaily == InitDaily /\ [][NextDaily]_vars

\* DataProcessor's merge and statistics, and the merge script
InitMerge ==
    /\ zigzag_df = EmptyFrame
    /\ window_data = NoWindow
    /\ movement_results = NoMovement
    /\ indicator_row = [time_col |-> "none", minute |-> 0]
    /\ pre_results = NoPre
    /\ post_results = NoPost
    /\ ratio_results = NoRatios
    /\ dp_zigzag_df = <<>>
    /\ daily_volatility_df = NoDaily
    /\ hour_jst = 0
    /\ time_range = Absent
    /\ indicators_df = <<>>
    /\ results_df = NoResults
    /\ indicator_csv = <<>>
    /\ volatility_df = NoTable
    /\ statistics_df = NoTable
    /\ merged_df = NoTable
    /\ processor = [min_samples |-> DefaultMinSamples, category_thresholds |-> None]
    /\ analyzed_df = [has_target |-> TRUE, rows |-> <<>>]
    /\ stats_df = NoTable
    /\ classified_df = NoClassified
    /\ scale_analyzer = MultiscaleAnalyzer(<<>>, ReferenceScale)
    /\ scale_df = [columns |-> TableScales, rows |-> <<>>]
    /\ ratio_df = NoRatioTable
    /\ propagation_df = NoTable
    /\ speed_results = NoSpeed
    /\ data_series = <<>>
    /\ outliers = NoOutliers
    /\ mt5 = [max_retries |-> 0]
    /\ csv_dir = [f \in CsvFiles |-> NoFile]
    /\ writes = 0
    /\ event_queue = <<>>
    /\ processed_files = {}
    /\ worker = [t \in Workers |-> IdleWorker]
    /\ scan = NoScan
    /\ call_log = NoCalls

NextMerge ==
    \/ LoadLeg
          /\ UNCHANGED <<zigzag_df, windowVars, asymVars, batchVars,
                         mergeVars, statVars, scaleVars, outlierVars,
                         monitorVars>>
    \/ CalculateDailyVolatility
          /\ UNCHANGED <<zigzag_df, windowVars, asymVars, batchVars,
                         mergeVars, statVars, scaleVars, outlierVars,
                         monitorVars>>
    \/ ReadIndicatorCsv
          /\ UNCHANGED <<zigzag_df, windowVars, asymVars, dailyVars,
                         batchVars, statVars, scaleVars, outlierVars,
                         monitorVars>>
    \/ MergeVolatilityWithIndicators
          /\ UNCHANGED <<zigzag_df, windowVars, asymVars, dailyVars,
                         batchVars, statVars, scaleVars, outlierVars,
                         monitorVars>>
    \/ CalculateStatistics
          /\ UNCHANGED <<zigzag_df, windowVars, asymVars, dailyVars,
                         batchVars, statVars, scaleVars, outlierVars,
                         monitorVars>>
    \/ MergeScript
          /\ UNCHANGED <<zigzag_df, windowVars, asymVars, dailyVars,
                         batchVars, statVars, scaleVars, outlierVars,
                         monitorVars>>

SpecMerge == InitMerge /\ [][NextMerge]_vars

\* StatisticalProcessor on a table of analysed events
InitStats ==
    /\ zigzag_df = EmptyFrame
    /\ window_data = NoWindow
    /\ movement_results = NoMovement
    /\ indicator_row = [time_col |-> "none", minute |-> 0]
    /\ pre_results = NoPre
    /\ post_results = NoPost
    /\ ratio_results = NoRatios
    /\ dp_zigzag_df = <<>>
    /\ daily_volatility_df = NoDaily
    /\ hour_jst = 0
    /\ time_range = Absent
    /\ indicators_df = <<>>
    /\ results_df = NoResults
    /\ indicator_csv = <<>>
    /\ volatility_df = NoTable
    /\ statistics_df = NoTable
    /\ merged_df = NoTable
    /\ processor \in [min_samples : {DefaultMinSamples, TestMinSamples},
                      category_thresholds : Thresholds]
    /\ analyzed_df \in {[has_target |-> b, rows |-> <<>>] : b \in BOOLEAN}
    /\ stats_df = NoTable
    /\ classified_df = NoClassified
    /\ scale_analyzer = MultiscaleAnalyzer(<<>>, ReferenceScale)
    /\ scale_df = [columns |-> TableScales, rows |-> <<>>]
    /\ ratio_df = NoRatioTable
    /\ propagation_df = NoTable
    /\ speed_results = NoSpeed
    /\ data_series = <<>>
    /\ outliers = NoOutliers
    /\ mt5 = [max_retries |-> 0]
    /\ csv_dir = [f \in CsvFiles |-> NoFile]
    /\ writes = 0
    /\ event_queue = <<>>
    /\ processed_files = {}
    /\ worker = [t \in Workers |-> IdleWorker]
    /\ scan = NoScan
    /\ call_log = NoCalls

NextStats ==
    \/ LoadAnalyzed
          /\ UNCHANGED <<zigzag_df, windowVars, asymVars, dailyVars,
                         batchVars, mergeVars, scaleVars, outlierVars,
                         monitorVars>>
    \/ CalculateIndicatorStatistics
          /\ UNCHANGED <<zigzag_df, windowVars, asymVars, dailyVars,
                         batchVars, mergeVars, scaleVars, outlierVars,
                         monitorVars>>
    \/ ClassifyIndicators
          /\ UNCHANGED <<zigzag_df, windowVars, asymVars, dailyVars,
                         batchVars, mergeVars, scaleVars, outlierVars,
                         monitorVars>>

SpecStats == InitStats /\ [][NextStats]_vars

\* MultiscaleAnalyzer on a table of analysed events
InitScale ==
    /\ zigzag_df = EmptyFrame
    /\ window_data = NoWindow
    /\ movement_results = NoMovement
    /\ indicator_row = [time_col |-> "none", minute |-> 0]
    /\ pre_results = NoPre
    /\ post_results = NoPost
    /\ ratio_results = NoRatios
    /\ dp_zigzag_df = <<>>
    /\ daily_volatility_df = NoDaily
    /\ hour_jst = 0
    /\ time_range = Absent
    /\ indicators_df = <<>>
    /\ results_df = NoResults
    /\ indicator_csv = <<>>
    /\ volatility_df = NoTable
    /\ statistics_df = NoTable
    /\ merged_df = NoTable
    /\ processor = [min_samples |-> DefaultMinSamples, category_thresholds |-> None]
    /\ analyzed_df = [has_target |-> TRUE, rows |-> <<>>]
    /\ stats_df = NoTable
    /\ classified_df = NoClassified
    /\ scale_analyzer \in {MultiscaleAnalyzer(ts, ReferenceScale) : ts \in CallerScales}
    /\ scale_df \in {[columns |-> c, rows |-> <<>>] : c \in ColumnSets}
    /\ ratio_df = NoRatioTable
    /\ propagation_df = NoTable
    /\ speed_results = NoSpeed
    /\ data_series = <<>>
    /\ outliers = NoOutliers
    /\ mt5 = [max_retries |-> 0]
    /\ csv_dir = [f \in CsvFiles |-> NoFile]
    /\ writes = 0
    /\ event_queue = <<>>
    /\ processed_files = {}
    /\ worker = [t \in Workers |-> IdleWorker]
    /\ scan = NoScan
    /\ call_log = NoCalls

NextScale ==
    \/ LoadScaleRow
          /\ UNCHANGED <<zigzag_df, windowVars, asymVars, dailyVars,
                         batchVars, mergeVars, statVars, outlierVars,
                         monitorVars>>
    \/ CalculateScaleRatios
          /\ UNCHANGED <<zigzag_df, windowVars, asymVars, dailyVars,
                         batchVars, mergeVars, statVars, outlierVars,
                         monitorVars>>
    \/ AnalyzePropagationEffects
          /\ UNCHANGED <<zigzag_df, windowVars, asymVars, dailyVars,
                         batchVars, mergeVars, statVars, outlierVars,
                         monitorVars>>

SpecScale == InitScale /\ [][NextScale]_vars

\* SpecOutliers: a data series is built and detect_outliers is applied to it
InitOutliers ==
    /\ zigzag_df = EmptyFrame
    /\ window_data = NoWindow
    /\ movement_results = NoMovement
    /\ indicator_row = [time_col |-> "none", minute |-> 0]
    /\ pre_results = NoPre
    /\ post_results = NoPost
    /\ ratio_results = NoRatios
    /\ dp_zigzag_df = <<>>
    /\ daily_volatility_df = NoDaily
    /\ hour_jst = 0
    /\ time_range = Absent
    /\ indicators_df = <<>>
    /\ results_df = NoResults
    /\ indicator_csv = <<>>
    /\ volatility_df = NoTable
    /\ statistics_df = NoTable
    /\ merged_df = NoTable
    /\ processor = [min_samples |-> DefaultMinSamples, category_thresholds |-> None]
    /\ analyzed_df = [has_target |-> TRUE, rows |-> <<>>]
    /\ stats_df = NoTable
    /\ classified_df = NoClassified
    /\ scale_analyzer = MultiscaleAnalyzer(<<>>, ReferenceScale)
    /\ scale_df = [columns |-> TableScales, rows |-> <<>>]
    /\ ratio_df = NoRatioTable
    /\ propagation_df = NoTable
    /\ speed_results = NoSpeed
    /\ data_series = <<>>
    /\ outliers = NoOutliers
    /\ mt5 = [max_retries |-> 0]
    /\ csv_dir = [f \in CsvFiles |-> NoFile]
    /\ writes = 0
    /\ event_queue = <<>>
    /\ processed_files = {}
    /\ worker = [t \in Workers |-> IdleWorker]
    /\ scan = NoScan
    /\ call_log = NoCalls

NextOutliers ==
    \/ AppendValue
          /\ UNCHANGED <<zigzag_df, windowVars, asymVars, dailyVars, batchVars,
                         mergeVars, statVars, scaleVars, monitorVars>>
    \/ DetectOutliers
          /\ UNCHANGED <<zigzag_df, windowVars, asymVars, dailyVars, batchVars,
                         mergeVars, statVars, scaleVars, monitorVars>>

SpecOutliers == InitOutliers /\ [][NextOutliers]_vars

\* SpecMonitor: MT5Integration.start_monitoring has started the observer;
\* csv_dir holds any files, the producer writes more, the observer thread
\* handles the events and the main thread checks the existing files
InitMonitor ==
    /\ zigzag_df = EmptyFrame
    /\ window_data = NoWindow
    /\ movement_results = NoMovement
    /\ indicator_row = [time_col |-> "none", minute |-> 0]
    /\ pre_results = NoPre
    /\ post_results = NoPost
    /\ ratio_results = NoRatios
    /\ dp_zigzag_df = <<>>
    /\ daily_volatility_df = NoDaily
    /\ hour_jst = 0
    /\ time_range = Absent
    /\ indicators_df = <<>>
    /\ results_df = NoResults
    /\ indicator_csv = <<>>
    /\ volatility_df = NoTable
    /\ statistics_df = NoTable
    /\ merged_df = NoTable
    /\ processor = [min_samples |-> DefaultMinSamples, category_thresholds |-> None]
    /\ analyzed_df = [has_target |-> TRUE, rows |-> <<>>]
    /\ stats_df = NoTable
    /\ classified_df = NoClassified
    /\ scale_analyzer = MultiscaleAnalyzer(<<>>, ReferenceScale)
    /\ scale_df = [columns |-> TableScales, rows |-> <<>>]
    /\ ratio_df = NoRatioTable
    /\ propagation_df = NoTable
    /\ speed_results = NoSpeed
    /\ data_series = <<>>
    /\ outliers = NoOutliers
    /\ mt5 \in [max_retries : 0 .. MaxRetries]
    /\ csv_dir \in [CsvFiles -> [content : FileContents, done : BOOLEAN]]
    /\ writes = 0
    /\ event_queue = <<>>
    /\ processed_files = {}
    /\ worker = [t \in Workers |-> IdleWorker]
    /\ scan = NoScan
    /\ call_log = NoCalls

NextMonitor ==
    \/ WriteCsv
          /\ UNCHANGED <<zigzag_df, windowVars, asymVars, dailyVars, batchVars,
                         mergeVars, statVars, scaleVars, outlierVars>>
    \/ WriteDone
          /\ UNCHANGED <<zigzag_df, windowVars, asymVars, dailyVars, batchVars,
                         mergeVars, statVars, scaleVars, outlierVars>>
    \/ ProcessFileEvent
          /\ UNCHANGED <<zigzag_df, windowVars, asymVars, dailyVars, batchVars,
                         mergeVars, statVars, scaleVars, outlierVars>>
    \/ CheckExistingFiles
          /\ UNCHANGED <<zigzag_df, windowVars, asymVars, dailyVars, batchVars,
                         mergeVars, statVars, scaleVars, outlierVars>>
    \/ CheckExistingFile
          /\ UNCHANGED <<zigzag_df, windowVars, asymVars, dailyVars, batchVars,
                         mergeVars, statVars, scaleVars, outlierVars>>
    \/ FinishCheck
          /\ UNCHANGED <<zigzag_df, windowVars, asymVars, dailyVars, batchVars,
                         mergeVars, statVars, scaleVars, outlierVars>>
    \/ \E t \in Workers : Attempt(t)
          /\ UNCHANGED <<zigzag_df, windowVars, asymVars, dailyVars, batchVars,
                         mergeVars, statVars, scaleVars, outlierVars>>
    \/ \E t \in Workers : Wake(t)
          /\ UNCHANGED <<zigzag_df, windowVars, asymVars, dailyVars, batchVars,
                         mergeVars, statVars, scaleVars, outlierVars>>

SpecMonitor == InitMonitor /\ [][NextMonitor]_vars

-----------------------------------------------------------------------------
(* Properties of extract_zigzag_window and calculate_price_movement,      *)
(* checked under SpecWindow.                                              *)

\* the timestamp of a pivot: the instant its leg starts
PivotInstant(row) == InstantOf(row.t)

\* the pivots of a table whose timestamp t satisfies a <= t <= b, in table order
PivotsWithin(df, a, b) ==
    LET Inside(row) == DtLeq(a, PivotInstant(row)) /\ DtLeq(PivotInstant(row), b)
    IN  SelectSeq(df.rows, Inside)

\* C1: extract_zigzag_window(pivots, t0, t1) returns exactly the pivots whose
\* timestamp t satisfies t0 <= t <= t1, both ends included, and an empty
\* table when the input is empty or nothing matches.
C1_ExtractReturnsClosedWindow ==
    window_data.called =>
        window_data.df.rows =
            PivotsWithin(zigzag_df, window_data.start_time, window_data.end_time)

\* all start_price and all end_price values of a table
StartAndEndPrices(df) ==
    {df.rows[i].start_price : i \in 1 .. Len(df.rows)}
        \cup {df.rows[i].end_price : i \in 1 .. Len(df.rows)}

\* C2: for at least 2 pivots, max_price and min_price are the maximum and the
\* minimum over all start_price and all end_price values, and price_movement
\* is max_price - min_price.
C2_ExtremesOverStartAndEndPrices ==
    movement_results.called /\ Len(movement_results.df.rows) >= 2 =>
        LET all == StartAndEndPrices(movement_results.df)
            r == movement_results.result
        IN  /\ r.max_price = Some(SetMax(all))
            /\ r.min_price = Some(SetMin(all))
            /\ r.price_movement = SetMax(all) - SetMin(all)

\* C3: for at least 2 pivots in any row order, start_price is that of a pivot
\* with the earliest timestamp, end_price is the end_price of a pivot with
\* the latest timestamp, net_movement is end_price - start_price and
\* movement_direction is up, down or neutral as end_price is above, below or
\* equal to start_price.
C3_FirstAndLastInTimeOrder ==
    movement_results.called /\ Len(movement_results.df.rows) >= 2 =>
        LET rows == movement_results.df.rows
            r == movement_results.result
            Earliest(i) == \A k \in 1 .. Len(rows) :
                              DtLeq(PivotInstant(rows[i]), PivotInstant(rows[k]))
            Latest(j) == \A k \in 1 .. Len(rows) :
                              DtLeq(PivotInstant(rows[k]), PivotInstant(rows[j]))
        IN  \E i \in 1 .. Len(rows), j \in 1 .. Len(rows) :
               /\ Earliest(i) /\ Latest(j)
               /\ r.start_price = Some(rows[i].start_price)
               /\ r.end_price = Some(rows[j].end_price)
               /\ r.net_movement = Some(rows[j].end_price - rows[i].start_price)
               /\ r.movement_direction =
                     Some(Direction(rows[i].start_price, rows[j].end_price))

-----------------------------------------------------------------------------
(* Properties of DataProcessor's fixed windows, checked under SpecDaily.  *)

\* the legs whose local start time t satisfies D+s:00 <= t < D+e:00 and
\* whose local date is D
Qualifying(df, D, s, e) ==
    {i \in 1 .. Len(df) :
        /\ D * MinutesPerDay + 60 * s <= df[i].start_time_jst
        /\ df[i].start_time_jst < D * MinutesPerDay + 60 * e
        /\ df[i].start_time_jst \div MinutesPerDay = D}

\* C4: for every local date D of the pivot data and every fixed window
\* [s, e), the cell is computed from exactly the pivots with
\* D+s:00 <= t < D+e:00 on date D: NaN when none qualifies, 0 when one does,
\* else max(start_price) - min(start_price), end_price being ignored.
C4_DailyFixedWindowCell ==
    daily_volatility_df.called =>
        LET df == dp_zigzag_df
            rows == daily_volatility_df.rows
        IN  /\ {rows[k].Date : k \in 1 .. Len(rows)} =
                  {df[i].start_time_jst \div MinutesPerDay : i \in 1 .. Len(df)}
            /\ \A k \in 1 .. Len(rows), w \in 1 .. Len(FIXED_TIME_WINDOWS_JST) :
                  LET Q == Qualifying(df, rows[k].Date, FIXED_TIME_WINDOWS_JST[w][1],
                                      FIXED_TIME_WINDOWS_JST[w][2])
                      starts == {df[i].start_price : i \in Q}
                      cell == rows[k].cells[w]
                  IN  IF Q = {} THEN cell = NaN
                      ELSE IF Cardinality(Q) = 1 THEN cell = <<0>>
                      ELSE cell = <<SetMax(starts) - SetMin(starts)>>

\* a day with a pivot at 00:00 and a pivot of another start price at 03:00
\* sharp: the cells of the windows 00-03 and 03-06 hold one pivot each
C4_Witness ==
    /\ daily_volatility_df.called
    /\ \E i, j \in 1 .. Len(dp_zigzag_df), k \in 1 .. Len(daily_volatility_df.rows) :
          /\ dp_zigzag_df[i].start_time_jst = daily_volatility_df.rows[k].Date * MinutesPerDay
          /\ dp_zigzag_df[j].start_time_jst = dp_zigzag_df[i].start_time_jst + 180
          /\ dp_zigzag_df[i].start_price # dp_zigzag_df[j].start_price
          /\ dp_zigzag_df[i].end_price # dp_zigzag_df[i].start_price
          /\ daily_volatility_df.rows[k].cells[1] = <<0>>
          /\ daily_volatility_df.rows[k].cells[2] = <<0>>

\* the windows of a table that contain the hour
WindowsOfHour(ranges, hour) ==
    {k \in 1 .. Len(ranges) : ranges[k][1] <= hour /\ hour < ranges[k][2]}

\* C5: every local hour 0..23 lies in exactly one fixed window of each
\* table, so get_time_range never returns None and every pivot falls in
\* exactly one window of its local date.
C5_WindowsPartitionTheDay ==
    /\ time_range # Absent =>
          /\ time_range[1] # None
          /\ Cardinality(WindowsOfHour(JST_TIME_RANGES, hour_jst)) = 1
          /\ Cardinality(WindowsOfHour(FIXED_TIME_WINDOWS_JST, hour_jst)) = 1
    /\ daily_volatility_df.called =>
          \A i \in 1 .. Len(dp_zigzag_df) :
             Cardinality({w \in 1 .. Len(FIXED_TIME_WINDOWS_JST) :
                 i \in Qualifying(dp_zigzag_df,
                                  dp_zigzag_df[i].start_time_jst \div MinutesPerDay,
                                  FIXED_TIME_WINDOWS_JST[w][1],
                                  FIXED_TIME_WINDOWS_JST[w][2])}) = 1

-----------------------------------------------------------------------------
(* Properties of AsymmetricAnalyzer, checked under Spec.                  *)

HasEventTime == indicator_row.time_col # "none"

\* number of pivots of the table with a timestamp in [a, b]
PointsWithin(a, b) == Len(PivotsWithin(zigzag_df, a, b))

\* C6: analyze_pre_event looks at the pivots in
\* [event_time - pre_window, event_time]: pre_event_points is their number
\* and pre_event_valid is false exactly when they are fewer than 2.
C6_PreEventWindow ==
    pre_results.called /\ HasEventTime =>
        LET n == PointsWithin(PreStart(EventTime(indicator_row)), EventTime(indicator_row))
        IN  /\ pre_results.result.pre_event_points = <<n>>
            /\ pre_results.result.pre_event_valid = (n >= 2)

\* C7: for every post window N, post_N_valid is true if and only if at least
\* 2 pivots have a timestamp in [event_time, event_time + N], whatever the
\* other windows hold.
C7_PostWindowsIndependent ==
    post_results.called /\ HasEventTime =>
        \A N \in PostWindowSet :
            post_results.result.windows[1][N].valid =
                (PointsWithin(EventTime(indicator_row),
                              PostEnd(EventTime(indicator_row), N)) >= 2)

\* price_movement of a pre-event result, 0 when it holds none
PreMovement(pre) == IF pre.movement = <<>> THEN 0 ELSE pre.movement[1].price_movement

\* C8: calculate_ratios returns ratios_valid = false and computes no ratio
\* whenever the pre result is invalid, the post result is invalid or the
\* pre-window price_movement is 0, whatever the post result.
C8_NoRatiosWithoutValidInputs ==
    ratio_results.called =>
        LET pre == ratio_results.pre
            post == ratio_results.post
            r == ratio_results.result
        IN  (~pre.pre_event_valid \/ ~post.post_event_valid \/ PreMovement(pre) = 0) =>
               /\ r.ratios_valid = FALSE
               /\ \A N \in PostWindowSet :
                     /\ r.ratio[N] = <<>>
                     /\ r.log_ratio[N] = <<>>
                     /\ r.direction_consistency[N] = <<>>

\* both results are valid, the pre-event movement is 0 and no ratio is given
C8_Witness ==
    /\ ratio_results.called
    /\ ratio_results.pre.pre_event_valid
    /\ ratio_results.post.post_event_valid
    /\ PreMovement(ratio_results.pre) = 0
    /\ \E N \in PostWindowSet : ratio_results.post.windows[1][N].valid
    /\ ~ratio_results.result.ratios_valid

\* C9: when ratios_valid is true, every valid post window N has
\* ratio_N = post_N price_movement / pre price_movement and has log_ratio_N,
\* equal to ln(ratio_N), exactly when ratio_N > 0; a post window that is not
\* valid has neither.
C9_RatioAndLogRatio ==
    ratio_results.called /\ ratio_results.result.ratios_valid =>
        LET pre_movement == PreMovement(ratio_results.pre)
            r == ratio_results.result
        IN  \A N \in PostWindowSet :
               LET window == ratio_results.post.windows[1][N]
               IN  IF window.valid
                   THEN /\ r.ratio[N] =
                             <<[num |-> window.movement[1].price_movement,
                                den |-> pre_movement]>>
                        /\ pre_movement > 0
                        /\ (r.log_ratio[N] # <<>>) = (window.movement[1].price_movement > 0)
                        /\ r.log_ratio[N] # <<>> => r.log_ratio[N][1].ln = r.ratio[N][1]
                   ELSE r.ratio[N] = <<>> /\ r.log_ratio[N] = <<>>

\* ratios are valid, one post window is not valid and has no ratio, another
\* has a positive ratio with its logarithm, a third case has ratio 0
C9_Witness ==
    /\ ratio_results.called
    /\ ratio_results.result.ratios_valid
    /\ \E N, M \in PostWindowSet :
          /\ ~ratio_results.post.windows[1][N].valid
          /\ ratio_results.result.ratio[N] = <<>>
          /\ ratio_results.post.windows[1][M].valid
          /\ ratio_results.result.ratio[M] # <<>>
          /\ ratio_results.result.log_ratio[M] # <<>>

\* direction of a post window, neutral when the window holds none
WindowDirection(window) ==
    IF window.movement = <<>> THEN "neutral"
    ELSE window.movement[1].movement_direction[1]

\* C10: when ratios_valid is true, direction_consistency_N is 1 if the pre
\* and post directions are equal and neither is neutral, 0 if they differ
\* and neither is neutral, 1/2 if either is neutral; a post window with
\* fewer than 2 pivots has no direction and gets 1/2.
C10_DirectionConsistency ==
    ratio_results.called /\ ratio_results.result.ratios_valid =>
        LET pre_direction == ratio_results.pre.movement[1].movement_direction[1]
        IN  \A N \in PostWindowSet :
               LET post_direction == WindowDirection(ratio_results.post.windows[1][N])
                   dc == ratio_results.result.direction_consistency[N]
               IN  /\ (pre_direction # "neutral" /\ post_direction # "neutral"
                          /\ pre_direction = post_direction)
                        => dc = <<[num |-> 1, den |-> 1]>>
                   /\ (pre_direction # "neutral" /\ post_direction # "neutral"
                          /\ pre_direction # post_direction)
                        => dc = <<[num |-> 0, den |-> 1]>>
                   /\ (pre_direction = "neutral" \/ post_direction = "neutral")
                        => dc = <<[num |-> 1, den |-> 2]>>

\* ratios are valid, one post window has fewer than 2 pivots and gets 1/2,
\* another moves in a direction of its own and gets 0 or 1
C10_Witness ==
    /\ ratio_results.called
    /\ ratio_results.result.ratios_valid
    /\ \E N, M \in PostWindowSet :
          /\ ~ratio_results.post.windows[1][N].valid
          /\ ratio_results.post.windows[1][N].points < 2
          /\ ratio_results.result.direction_consistency[N] = <<[num |-> 1, den |-> 2]>>
          /\ ratio_results.post.windows[1][M].valid
          /\ ratio_results.result.direction_consistency[M] \in
                {<<[num |-> 0, den |-> 1]>>, <<[num |-> 1, den |-> 1]>>}

-----------------------------------------------------------------------------
(* Properties of analyze_indicator and batch_process_indicators, checked  *)
(* under SpecBatch.                                                       *)

\* the keys the analysis results of a merged record hold
AnalysisKeysOf(r) ==
    PreKeys(r.pre) \cup PostKeys(r.post)
        \cup (IF r.ratios = <<>> THEN {} ELSE RatioKeys(r.ratios[1]))

\* C11: analyze_indicator returns the union of the pre, post and ratio
\* results plus the event's fields: an event field whose name is no key of
\* the analysis results appears unchanged, and for a name that is both an
\* analysis key and an event field the record holds the analysis value.
C11_EventFieldsNeverOverwrite ==
    \A i \in 1 .. Len(results_df.rows) :
        LET r == results_df.rows[i]
            event == indicators_df[i]
        IN  /\ r.pre \in analyze_pre_event(event, zigzag_df)
            /\ r.post \in analyze_post_event(event, zigzag_df)
            /\ r.ratios # <<>> => r.ratios[1] = calculate_ratios(r.pre, r.post)
            /\ \A k \in DOMAIN event.fields :
                  IF k \in AnalysisKeysOf(r)
                  THEN k \notin DOMAIN r.fields
                  ELSE k \in DOMAIN r.fields /\ r.fields[k] = event.fields[k]

\* an event with a field price_movement of its own is analysed with a valid
\* pre-event result: the record holds the analysis value, and the event's
\* Currency
C11_Witness ==
    \E i \in 1 .. Len(results_df.rows) :
        /\ "price_movement" \in DOMAIN indicators_df[i].fields
        /\ results_df.rows[i].pre.pre_event_valid
        /\ results_df.rows[i].ratios # <<>>
        /\ "price_movement" \notin DOMAIN results_df.rows[i].fields
        /\ results_df.rows[i].fields["Currency"] = "EUR"

\* C12: batch_process_indicators returns one row per input event, in input
\* order, and the row of an event is a result of analysing that event on
\* the pivot table, whatever the other events of the batch are.
C12_OneRowPerEventInOrder ==
    results_df.returned =>
        /\ Len(results_df.rows) = Len(indicators_df)
        /\ \A i \in 1 .. Len(indicators_df) :
              results_df.rows[i] \in analyze_indicator(indicators_df[i], zigzag_df)

\* a batch of two different events has returned two different rows, the
\* second with ratios
C12_Witness ==
    /\ results_df.returned
    /\ Len(indicators_df) = 2
    /\ indicators_df[1] # indicators_df[2]
    /\ Len(results_df.rows) = 2
    /\ results_df.rows[1].fields # results_df.rows[2].fields
    /\ results_df.rows[2].ratios # <<>>

-----------------------------------------------------------------------------
(* Inputs left alone, checked under SpecWindow.                           *)

\* C13: no analysis operation modifies its inputs in place: after
\* extract_zigzag_window the caller's pivot table holds the columns and
\* values it held before the call.
C13_InputsNotModifiedInPlace ==
    [][window_data' # window_data => zigzag_df' = zigzag_df]_vars


-----------------------------------------------------------------------------
(* Properties of the merges and of DataProcessor's statistics, checked    *)
(* under SpecMerge.                                                       *)

\* DataProcessor.indicators_df, and df_indicators of the merge script
LoadedIndicators ==
    [k \in 1 .. Len(indicator_csv) |-> load_indicator_data(indicator_csv[k])]
ScriptIndicators ==
    [k \in 1 .. Len(indicator_csv) |-> ScriptIndicator(indicator_csv[k])]

\* the daily volatility table has a row of this local date
DayHasVolatility(date_val) ==
    \E r \in 1 .. Len(daily_volatility_df.rows) :
        daily_volatility_df.rows[r].Date = date_val

\* the merged rows are the events, one row each, with the events' own fields
OneRowPerEvent(events, rows) ==
    /\ Len(rows) = Len(events)
    /\ \A k \in 1 .. Len(events) : \A n \in DOMAIN events[k] : rows[k][n] = events[k][n]

(* C14: the merge of the indicator events with the volatility table by    *)
(* local date neither drops nor duplicates an event: the merged table has *)
(* exactly one row per event, with the event's own fields unchanged, and  *)
(* the volatility columns of an event whose date has no volatility row    *)
(* are missing.  Stated for DataProcessor's merge and the merge script.   *)
C14_LeftJoinKeepsEveryEvent ==
    /\ volatility_df.called =>
          /\ OneRowPerEvent(LoadedIndicators, volatility_df.rows)
          /\ \A k \in 1 .. Len(indicator_csv) :
                ~DayHasVolatility(DateOf(LoadedIndicators[k].DateTime_JST))
                    => volatility_df.rows[k].Volatility = NoVolatility
    /\ merged_df.called =>
          /\ OneRowPerEvent(ScriptIndicators, merged_df.rows)
          /\ \A k \in 1 .. Len(indicator_csv) :
                ~DayHasVolatility(ScriptIndicators[k].Date_JST)
                    => /\ merged_df.rows[k].PriceMovement = NaN
                       /\ merged_df.rows[k].MaxHigh_in_Range = NaN
                       /\ merged_df.rows[k].MinLow_in_Range = NaN

\* the rows of statistics_df of one indicator and one fixed window
StatisticsRowsOf(key, w) ==
    {i \in 1 .. Len(statistics_df.rows) :
        /\ statistics_df.rows[i].Currency = key[1]
        /\ statistics_df.rows[i].EventName = key[2]
        /\ statistics_df.rows[i].TimeWindow_Slot = FIXED_TIME_WINDOWS_JST[w]}

\* the merged events of one indicator with a volatility value in one window
EventsWithValue(key, w) ==
    {k \in 1 .. Len(volatility_df.rows) :
        /\ volatility_df.rows[k].Currency = key[1]
        /\ volatility_df.rows[k].EventName = key[2]
        /\ volatility_df.rows[k].Volatility[w] # NaN}

IndicatorKeys ==
    {<<volatility_df.rows[k].Currency, volatility_df.rows[k].EventName>> :
        k \in 1 .. Len(volatility_df.rows)}

\* a statistics row of one sample v, and of no sample
SingleSampleRow(st, v) ==
    /\ st.Sample_Count = 1
    /\ st.Volatility_Mean # NaN /\ st.Volatility_Mean[1].num = v * st.Volatility_Mean[1].den
    /\ st.Volatility_Median # NaN
    /\ st.Volatility_Median[1].num = v * st.Volatility_Median[1].den
    /\ st.Volatility_Min = Some(v)
    /\ st.Volatility_Max = Some(v)
    /\ st.Volatility_Std # NaN /\ st.Volatility_Std[1].sqrt.num = 0
NoSampleRow(st) ==
    /\ st.Sample_Count = 0
    /\ st.Volatility_Mean = NaN
    /\ st.Volatility_Median = NaN
    /\ st.Volatility_Std = NaN
    /\ st.Volatility_Min = NaN
    /\ st.Volatility_Max = NaN

(* C18: DataProcessor.calculate_statistics emits exactly one row for every *)
(* (Currency, EventName) group of the merged table and each of the 7       *)
(* fixed windows, whatever the sample count: with exactly one volatility   *)
(* value v the row has mean = median = min = max = v, std = 0 and          *)
(* Sample_Count = 1; with none, all five are missing and Sample_Count = 0. *)
C18_OneRowPerIndicatorAndWindow ==
    statistics_df.called =>
        /\ Len(FIXED_TIME_WINDOWS_JST) = 7
        /\ Len(statistics_df.rows) = 7 * Cardinality(IndicatorKeys)
        /\ \A key \in IndicatorKeys : \A w \in 1 .. 7 :
              /\ Cardinality(StatisticsRowsOf(key, w)) = 1
              /\ \A i \in StatisticsRowsOf(key, w) :
                    LET st == statistics_df.rows[i].stats
                        events == EventsWithValue(key, w)
                    IN  /\ st.Sample_Count = Cardinality(events)
                        /\ events = {} => NoSampleRow(st)
                        /\ \A k \in events :
                              events = {k} =>
                                 SingleSampleRow(st, volatility_df.rows[k].Volatility[w][1])

\* statistics were computed for an indicator with one sample in one window
\* and none in another
C18_Witness ==
    /\ statistics_df.called
    /\ \E key \in IndicatorKeys :
          /\ \E w \in 1 .. 7 : Cardinality(EventsWithValue(key, w)) = 1
          /\ \E w \in 1 .. 7 : Cardinality(EventsWithValue(key, w)) = 0

-----------------------------------------------------------------------------
(* Properties of StatisticalProcessor, checked under SpecStats.           *)

\* the analysed events of one indicator that have a target value
EventsWithTarget(key) ==
    {k \in 1 .. Len(analyzed_df.rows) :
        /\ analyzed_df.has_target
        /\ analyzed_df.rows[k].Currency = key[1]
        /\ analyzed_df.rows[k].EventName = key[2]
        /\ analyzed_df.rows[k].target # NaN}

\* the rows of stats_df of one indicator
StatsRowsOf(key) ==
    {i \in 1 .. Len(stats_df.rows) :
        stats_df.rows[i].Currency = key[1] /\ stats_df.rows[i].EventName = key[2]}

(* C15: calculate_indicator_statistics ignores the events without a       *)
(* target value; its output has a row for a (Currency, EventName) group   *)
(* if and only if the group has at least min_samples (5 when the caller   *)
(* gives none) events with a target value, and the count of that row is   *)
(* that number of events.                                                 *)
C15_RowIffMinSamples ==
    /\ DefaultMinSamples = 5
    /\ stats_df.called =>
          \A key \in AnalyzedKeys :
              LET n == Cardinality(EventsWithTarget(key))
              IN  /\ StatsRowsOf(key) # {} <=> n >= processor.min_samples
                  /\ Cardinality(StatsRowsOf(key)) <= 1
                  /\ \A i \in StatsRowsOf(key) : stats_df.rows[i].target_count = n

\* statistics were computed where one indicator has exactly min_samples
\* events with a target value and one without, and the other indicator has
\* fewer than min_samples
C15_Witness ==
    /\ stats_df.called
    /\ \E key \in AnalyzedKeys :
          /\ Cardinality(EventsWithTarget(key)) = processor.min_samples
          /\ StatsRowsOf(key) # {}
          /\ \E k \in 1 .. Len(analyzed_df.rows) :
                /\ analyzed_df.rows[k].Currency = key[1]
                /\ analyzed_df.rows[k].target = NaN
    /\ \E key \in AnalyzedKeys :
          /\ Cardinality(EventsWithTarget(key)) > 0
          /\ StatsRowsOf(key) = {}

\* the category of a classified row, and its mean
CategoryOf(k) == classified_df.rows[k].Volatility_Category
MeanOf(k) == classified_df.rows[k].stats.target_mean

\* the category of the mean m under the thresholds q1, q2
ExpectedCategory(m, q1, q2) ==
    IF m * q1.den < q1.num THEN "Small"
    ELSE IF m * q2.den < q2.num THEN "Medium"
    ELSE "Large"

\* the category of the scenario with q1 = 1.0 and q2 = 2.0
ScenarioCategory ==
    (5000 :> "Small") @@ (10000 :> "Medium") @@ (15000 :> "Medium") @@
    (20000 :> "Large") @@ (25000 :> "Large")

(* C16: classify_indicators, with method 'percentile' or 'absolute', gives *)
(* every indicator exactly one category from its mean m and the           *)
(* thresholds: Small if m < q1, Medium if q1 <= m < q2, Large if m >= q2;  *)
(* with q1 = 1.0 and q2 = 2.0 the means 0.5, 1.0, 1.5, 2.0, 2.5 are Small, *)
(* Medium, Medium, Large, Large; the output has as many rows as the input. *)
C16_CategoryFromMeanAndThresholds ==
    (classified_df.called /\ classified_df.method \in {"percentile", "absolute"}) =>
        /\ Len(classified_df.rows) = Len(stats_df.rows)
        /\ \A k \in 1 .. Len(classified_df.rows) :
              LET q == classified_df.thresholds[1]
              IN  /\ classified_df.rows[k].stats = stats_df.rows[k]
                  /\ CategoryOf(k) = Some(ExpectedCategory(MeanOf(k), q[1], q[2]))
                  /\ (processor.category_thresholds = <<10000, 20000>>
                        /\ MeanOf(k) \in DOMAIN ScenarioCategory)
                       => CategoryOf(k) = Some(ScenarioCategory[MeanOf(k)])

\* indicators were classified under q1 = 1.0, q2 = 2.0 with a mean on a
\* threshold
C16_Witness ==
    /\ classified_df.called
    /\ classified_df.method \in {"percentile", "absolute"}
    /\ processor.category_thresholds = <<10000, 20000>>
    /\ \E k \in 1 .. Len(classified_df.rows) : MeanOf(k) \in {10000, 20000}

\* the number of classified indicators whose mean is at or below q
AtOrBelow(q) ==
    Cardinality({k \in 1 .. Len(classified_df.rows) : MeanOf(k) * q.den <= q.num})

(* C17: with method 'percentile' and no thresholds given, q1 and q2 are    *)
(* the 33rd and 67th percentiles of the means, and among n indicators      *)
(* with pairwise distinct means exactly ceil(0.33 n) have a mean at or     *)
(* below q1 and exactly ceil(0.67 n) a mean at or below q2.                *)
C17_PercentileCounts ==
    (/\ classified_df.called
     /\ classified_df.method = "percentile"
     /\ processor.category_thresholds = None
     /\ classified_df.rows # <<>>
     /\ \A j, k \in 1 .. Len(classified_df.rows) : j # k => MeanOf(j) # MeanOf(k))
    => LET n == Len(classified_df.rows)
           q == classified_df.thresholds[1]
       IN  /\ AtOrBelow(q[1]) = (33 * n + 99) \div 100
           /\ AtOrBelow(q[2]) = (67 * n + 99) \div 100

-----------------------------------------------------------------------------
(* Properties of MultiscaleAnalyzer, checked under SpecScale.             *)

\* the movement of horizon s of event k; a horizon without a column has none
MovementAt(k, s) ==
    IF s \in scale_df.columns THEN scale_df.rows[k][s] ELSE NaN

\* the ratio and the log-normalised ratio of horizon s the result gives
\* event k; a horizon without a ratio column has none
RatioAt(k, s) ==
    IF s \in ratio_df.ratio_scales THEN ratio_df.rows[k].scale_ratio[s] ELSE NaN
NormRatioAt(k, s) ==
    IF s \in ratio_df.ratio_scales THEN ratio_df.rows[k].norm_scale_ratio[s] ELSE NaN

\* the horizons of the analyzer other than the reference horizon
OtherScales ==
    {scale_analyzer.time_scales[i] : i \in 1 .. Len(scale_analyzer.time_scales)}
        \ {scale_analyzer.reference_scale}

(* C19: calculate_scale_ratios keeps the number of rows and, for every row *)
(* and every configured horizon s other than the reference horizon r,     *)
(* sets the ratio to movement_s / movement_r, or to missing when           *)
(* movement_r is 0 or either movement is missing, and the log-normalised   *)
(* ratio to ln(ratio) exactly when the ratio is present and > 0; the       *)
(* movements 5: 2.0, 15: 4.0, 30: 6.0 with r = 15 give 0.5 and 1.5.        *)
C19_ScaleRatios ==
    ratio_df.called =>
        /\ Len(ratio_df.rows) = Len(scale_df.rows)
        /\ \A k \in 1 .. Len(scale_df.rows) : \A s \in OtherScales :
              LET m_s == MovementAt(k, s)
                  m_r == MovementAt(k, scale_analyzer.reference_scale)
                  ratio == RatioAt(k, s)
              IN  /\ ratio_df.rows[k].movement = scale_df.rows[k]
                  /\ IF m_s = NaN \/ m_r = NaN \/ m_r = Some(0)
                     THEN ratio = NaN
                     ELSE ratio # NaN /\ ratio[1].num * m_r[1] = m_s[1] * ratio[1].den
                  /\ IF ratio # NaN /\ ratio[1].num * ratio[1].den > 0
                     THEN NormRatioAt(k, s) = Some([ln |-> ratio[1]])
                     ELSE NormRatioAt(k, s) = NaN
                  /\ (m_s = Some(2) /\ m_r = Some(4) /\ s = 5)
                        => ratio # NaN /\ 2 * ratio[1].num = ratio[1].den
                  /\ (m_s = Some(6) /\ m_r = Some(4) /\ s = 30)
                        => ratio # NaN /\ 2 * ratio[1].num = 3 * ratio[1].den

\* ratios were computed for the movements 2, 4, 6 of the horizons 5, 15, 30,
\* for an event whose reference movement is 0 and for one with a missing
\* movement
C19_Witness ==
    /\ ratio_df.called
    /\ ratio_df.ratio_scales = {5, 30}
    /\ \E k \in 1 .. Len(scale_df.rows) :
          /\ MovementAt(k, 5) = Some(2) /\ MovementAt(k, 15) = Some(4)
          /\ MovementAt(k, 30) = Some(6)
          /\ NormRatioAt(k, 30) # NaN
    /\ \E k \in 1 .. Len(scale_df.rows) : MovementAt(k, 15) = Some(0)
    /\ \E k \in 1 .. Len(scale_df.rows) : MovementAt(k, 5) = NaN

(* C20: analyze_propagation_effects compares only adjacent horizons in     *)
(* ascending order, for every list of time scales given to the analyzer,   *)
(* in any order and with or without the reference scale: every emitted     *)
(* row has smaller_scale < larger_scale and no configured horizon lies     *)
(* strictly between the two.                                               *)
C20_AdjacentAscendingPairs ==
    propagation_df.called =>
        \A k \in 1 .. Len(propagation_df.rows) :
            LET row == propagation_df.rows[k]
            IN  /\ row.smaller_scale < row.larger_scale
                /\ \A i \in 1 .. Len(scale_analyzer.time_scales) :
                      ~(/\ row.smaller_scale < scale_analyzer.time_scales[i]
                        /\ scale_analyzer.time_scales[i] < row.larger_scale)

\* the events of the table with both movements of a pair present and a
\* non-zero movement on the smaller horizon
NonZeroPairRows(smaller_scale, larger_scale) ==
    {k \in 1 .. Len(scale_df.rows) :
        /\ MovementAt(k, smaller_scale) # NaN
        /\ MovementAt(k, larger_scale) # NaN
        /\ MovementAt(k, smaller_scale) # Some(0)}

(* C21: analyze_propagation_effects emits a row for an adjacent pair of    *)
(* horizons only if at least 5 events have both movements present and a    *)
(* non-zero movement on the smaller horizon, and the count, correlation,   *)
(* mean ratio and regression of the row use exactly those events.          *)
C21_RowOnlyFromNonZeroEvents ==
    propagation_df.called =>
        \A k \in 1 .. Len(propagation_df.rows) :
            LET row == propagation_df.rows[k]
                events == NonZeroPairRows(row.smaller_scale, row.larger_scale)
            IN  /\ Cardinality(events) >= MinValidRows
                /\ row.count = Cardinality(events)
                /\ row.valid_data = events

-----------------------------------------------------------------------------
(* Properties of calculate_movement_speed, checked under SpecWindow.      *)

\* the earliest and the latest timestamp of a pivot subset are equal
EqualEnds(df) ==
    /\ df.rows # <<>>
    /\ TimeCols(df.layout) # <<>>
    /\ \A i, j \in 1 .. Len(df.rows) :
          SameInstant(TimeValue(df.layout, df.rows[i]), TimeValue(df.layout, df.rows[j]))

\* an elapsed time of zero
ZeroElapsed(elapsed) == elapsed.s = 0 /\ elapsed.ns = 0

-----------------------------------------------------------------------------
(* Properties of detect_outliers, checked under SpecOutliers.             *)

\* the non-missing values of the series
ValidSeriesValues ==
    {i \in 1 .. Len(data_series) : data_series[i] # NaN}

\* the standard deviation of the non-missing values is 0: they are all equal
DegenerateSeries ==
    \A i, j \in ValidSeriesValues : data_series[i] = data_series[j]

(* C23: detect_outliers returns one boolean flag per input element, and    *)
(* all flags are False whenever fewer than 4 values are non-missing (for   *)
(* either method), whenever the method is 'zscore' and the standard        *)
(* deviation of the valid values is 0, and for an unknown method; on the   *)
(* series of test_detect_outliers the 'iqr' method with threshold 1.5      *)
(* flags the element of index 5.                                           *)
C23_OneFlagPerElement ==
    /\ outliers.called =>
          /\ Len(outliers.flags) = Len(data_series)
          /\ \A i \in 1 .. Len(outliers.flags) : outliers.flags[i] \in BOOLEAN
          /\ (\/ Cardinality(ValidSeriesValues) < 4
              \/ outliers.method = "zscore" /\ DegenerateSeries
              \/ outliers.method \notin {"iqr", "zscore"})
                => \A i \in 1 .. Len(outliers.flags) : outliers.flags[i] = FALSE
    /\ Len(detect_outliers(TestSeries, "iqr", Frac(3, 2))) = Len(TestSeries)
    /\ detect_outliers(TestSeries, "iqr", Frac(3, 2))[6]

\* the z-score method was asked for 3 valid values and a missing one, of
\* which one value lies far from the others
C23_Witness ==
    /\ outliers.called
    /\ outliers.method = "zscore"
    /\ Cardinality(ValidSeriesValues) = 3
    /\ Len(data_series) = 4
    /\ \E i \in ValidSeriesValues : data_series[i] = Some(20)
    /\ \E i \in ValidSeriesValues : data_series[i] = Some(1)

-----------------------------------------------------------------------------
(* Properties of StatisticalProcessor.process_analyzed_data, checked      *)
(* under SpecStats.                                                        *)

\* the target values of the group of classified row k, not rounded
GroupValuesOf(k) ==
    TargetValuesOf(analyzed_df.rows,
                   <<classified_df.rows[k].stats.Currency,
                     classified_df.rows[k].stats.EventName>>)

\* the category of the exact mean sum / n under the thresholds q1, q2
ExactMeanCategory(sum, n, q1, q2) ==
    IF sum * q1.den < q1.num * n THEN "Small"
    ELSE IF sum * q2.den < q2.num * n THEN "Medium"
    ELSE "Large"

(* C25: in process_analyzed_data the rounding of the group statistics to   *)
(* 3 decimals does not feed into the classification: every group gets the  *)
(* category of its exact mean under the thresholds used, and with the      *)
(* 'absolute' method and the default thresholds (0.0005, 0.001) a group    *)
(* whose mean lies in [0.0005, 0.001) is Medium.                           *)
C25_CategoryFromExactMean ==
    (classified_df.called /\ classified_df.method \in {"percentile", "absolute"}) =>
        \A k \in 1 .. Len(classified_df.rows) :
            LET q == classified_df.thresholds[1]
                sum == SumSeq(GroupValuesOf(k))
                n == Len(GroupValuesOf(k))
            IN  /\ CategoryOf(k) = Some(ExactMeanCategory(sum, n, q[1], q[2]))
                /\ (/\ classified_df.method = "absolute"
                    /\ processor.category_thresholds = None
                    /\ 5 * n <= sum
                    /\ sum < 10 * n)
                      => CategoryOf(k) = Some("Medium")

-----------------------------------------------------------------------------
(* Properties of the post-event windows, checked under Spec.              *)

\* the results of post window N of the last analyze_post_event
PostWindowOf(N) == post_results.result.windows[1][N]

(* C26: for one event and two configured post windows N1 < N2,            *)
(* post_N1_points <= post_N2_points; whenever window N1 is valid window N2 *)
(* is valid too, and then the price_movement of window N1 is <= the        *)
(* price_movement of window N2.                                            *)
C26_PostWindowsMonotone ==
    (post_results.called /\ post_results.result.windows # Absent) =>
        \A N1, N2 \in PostWindowSet :
            N1 < N2 =>
                /\ PostWindowOf(N1).points <= PostWindowOf(N2).points
                /\ PostWindowOf(N1).valid =>
                      /\ PostWindowOf(N2).valid
                      /\ PostWindowOf(N1).movement[1].price_movement
                            <= PostWindowOf(N2).movement[1].price_movement

\* an event whose 1-minute window is valid and holds fewer pivots and a
\* smaller movement than its 2-minute window
C26_Witness ==
    /\ post_results.called
    /\ post_results.result.windows # Absent
    /\ PostWindowOf(1).valid
    /\ PostWindowOf(1).points < PostWindowOf(2).points
    /\ PostWindowOf(1).movement[1].price_movement
          < PostWindowOf(2).movement[1].price_movement

\* the pivots of the table at the announcement time of the event
PivotsAtEvent ==
    PointsWithin(EventTime(indicator_row), EventTime(indicator_row))

(* C27: the pre-event window and every post-event window are closed at    *)
(* event_time, so a pivot whose timestamp equals the announcement time is  *)
(* counted in both: pre_event_points and post_N_points of every            *)
(* configured N count the pivots of their closed windows, those at the     *)
(* announcement time included.                                             *)
C27_EventPivotInBothWindows ==
    (HasEventTime /\ PivotsAtEvent >= 1) =>
        /\ pre_results.called =>
              /\ pre_results.result.pre_event_points # Absent
              /\ pre_results.result.pre_event_points[1] >= PivotsAtEvent
              /\ pre_results.result.pre_event_points[1] =
                    PointsWithin(PreStart(EventTime(indicator_row)),
                                 EventTime(indicator_row))
        /\ post_results.called =>
              \A N \in PostWindowSet :
                  /\ PostWindowOf(N).points >= PivotsAtEvent
                  /\ PostWindowOf(N).points =
                        PointsWithin(EventTime(indicator_row),
                                     PostEnd(EventTime(indicator_row), N))

-----------------------------------------------------------------------------
(* Properties of the indicator loaders, checked under SpecBatch.          *)

\* the fields of a row that hold the "no data" value
SentinelFields(fields) == {k \in DOMAIN fields : fields[k] = SentinelText}

(* C24: in every pipeline that loads indicator events every numeric event *)
(* field equal to -9223372036854775808 is replaced by a missing value      *)
(* before the events are used in an analysis, so the value never reaches   *)
(* an enriched table; stated for the events load_indicator_data of the     *)
(* integrated and process_indicators pipelines hands to                    *)
(* batch_process_indicators and for the rows of its result.                *)
C24_SentinelNeverReachesTables ==
    /\ \A k \in 1 .. Len(indicators_df) : SentinelFields(indicators_df[k].fields) = {}
    /\ \A k \in 1 .. Len(results_df.rows) : SentinelFields(results_df.rows[k].fields) = {}

-----------------------------------------------------------------------------
(* Properties of the file monitoring, checked under SpecMonitor.          *)

\* thread t makes an attempt on its file in this step
Attempts(t) ==
    /\ worker[t].pc = "try"
    /\ worker[t].retries <= mt5.max_retries
    /\ worker'[t] # worker[t]

\* thread t returns from process_indicator_file in this step, with result r
Returns(t, r) ==
    /\ worker[t].pc = "try"
    /\ worker'[t].pc = "idle"
    /\ call_log'.last[t].result = r
    /\ call_log'.last[t].file = worker[t].file

(* C28: once a CSV file with its flag file has been processed              *)
(* successfully it is not processed again during the monitoring run:       *)
(* neither the check of the existing files nor a later created or          *)
(* modified event starts process_indicator_file for it once more, in any   *)
(* interleaving of the observer thread with the check.                     *)
C28_ProcessedOnce ==
    [][\A f \in call_log.succeeded : call_log'.started[f] = call_log.started[f]]_vars

(* C29: the handler adds a file to processed_files only after the file     *)
(* was processed successfully: when process_indicator_file returns False   *)
(* (no rows, a required column missing, or all retries used up) the file   *)
(* is not marked, and a later event for it starts the processing again.    *)
C29_MarkedOnlyAfterSuccess ==
    [][/\ Returns("observer", FALSE) => processed_files' = processed_files
       /\ \A f \in processed_files' \ processed_files : Returns("observer", TRUE)]_vars

\* the file a thread works on is empty: it has no rows, or no bytes at all
EmptyFile(t) == csv_dir[worker[t].file].content \in {"no_rows", "zero_bytes"}

(* C30: process_indicator_file terminates after at most max_retries + 1    *)
(* attempts: it returns True on the first attempt that succeeds, returns   *)
(* False at once, without another attempt, for an empty file or a file     *)
(* that misses a required column, and returns False after the              *)
(* (max_retries + 1)-th failed attempt without sleeping again.             *)
C30_BoundedAttempts ==
    [][\A t \in Workers :
          Attempts(t) =>
              LET content == csv_dir[worker[t].file].content
                  attempt == worker[t].attempts + 1
              IN  /\ attempt <= mt5.max_retries + 1
                  /\ content = "rows" => Returns(t, TRUE)
                  /\ (EmptyFile(t) \/ content = "missing_column") => Returns(t, FALSE)
                  /\ (content # "rows" /\ attempt = mt5.max_retries + 1)
                        => /\ Returns(t, FALSE)
                           /\ call_log'.last[t].sleeps = worker[t].sleeps
                           /\ call_log'.last[t].attempts = attempt]_vars

=============================================================================
